---- MODULE Spec2Model ----
(***************************************************************************)
(* Formal model of hedera-sentry's backend runtime.                        *)
(*                                                                         *)
(*  Part I   the run store and the run orchestrator (server.ts, main.ts,   *)
(*           repo.metadata.ts): POST /analysis, the background worker,     *)
(*           GET status, POST score-file.  Every action is one             *)
(*           synchronous stretch of JavaScript between two awaits.         *)
(*  Part II  ScoringEngine.scoreFileBatch / attemptBatchScoring            *)
(*           (scorer.ts): the batch call, reconciliation and single retry. *)
(*                                                                         *)
(*  Part III ScoringEngine.generateScorecard: partition and bin packing.   *)
(*  Part IV  GET /analysis/:runId/file-content (server.ts).                *)
(*  Part V   ScoringEngine.scoreFile (scorer.ts): per-file scoring over     *)
(*           the file's groups.                                            *)
(*  Part VI  UniversalChunker.chunkFileWithGrouping (chunker.ts) with      *)
(*           BaseStrategy.fallbackSplitter (solidity.strategy.ts).         *)
(*  Part VII getRepoMetadata (repo.metadata.ts) and cloneRepo (utils.ts)   *)
(*           under concurrent callers.                                     *)
(*  Part VIII safeJsonChatCompletion (utils.ts).                           *)
(*  Part IX  ScoringEngine's two dossier builders (scorer.ts).             *)
(*                                                                         *)
(*  main.ts and scorer.ts are src/unnamed/part_010 (lines 1-693 and        *)
(*  695-1379); line numbers quoted for them are lines of that file.        *)
(***************************************************************************)
EXTENDS Integers, Sequences, FiniteSets, TLC

VARIABLES
    analysisStore,      \* server.ts:19  Map<runId, RunState>, as run id -> heap object (0: no entry)
    objs,               \* the RunState objects; a worker keeps a reference to the one it was started for
    repoMetadataCache,  \* repo.metadata.ts:14  the urls that have a cached RepoMetadata
    disk,               \* the reports directory: run directory -> artifacts
    nodeEnv,            \* process.env.NODE_ENV
    pc,                 \* per POST request / worker: the await it is suspended at
    req,                \* per POST request: its body {repoUrl, runId}
    resp,               \* per POST request: the HTTP answer given
    local,              \* per worker: local variables that live across awaits
    updateCalls,        \* history: number of updateRunState calls made per run id
    sf,                 \* the POST /analysis/:runId/score-file request in flight
    bPc, bBatch, bFirst, bRetryBatch, bRetry, bResult, bCalls,   \* Part II
    pkPc, pkFiles, pkBatchable, pkLarge, pkRemaining, pkBatches,  \* Part III
    fcPc, fcQuery, fcRes,                                         \* Part IV
    fPc, fLeft, fGroups, fResult,                                 \* Part V
    cPc, cFile, cOut,                                             \* Part VI
    mPc, mUrl, mRet, metadataCache, repoDir, cloneCalls,          \* Part VII
    jPc, jMaxRetries, jAttempt, jCalls, jResult,                  \* Part VIII
    dPc, dStrategy, dScoredFiles, dCandidates, dSent, dEntries    \* Part IX

storeVars == <<analysisStore, objs, repoMetadataCache, disk, nodeEnv, pc, req, resp,
               local, updateCalls, sf>>
batchVars == <<bPc, bBatch, bFirst, bRetryBatch, bRetry, bResult, bCalls>>
packVars == <<pkPc, pkFiles, pkBatchable, pkLarge, pkRemaining, pkBatches>>
contentVars == <<fcPc, fcQuery, fcRes>>
scoreVars == <<fPc, fLeft, fGroups, fResult>>
chunkVars == <<cPc, cFile, cOut>>
metaVars == <<mPc, mUrl, mRet, metadataCache, repoDir, cloneCalls>>
jsonVars == <<jPc, jMaxRetries, jAttempt, jCalls, jResult>>
dossierVars == <<dPc, dStrategy, dScoredFiles, dCandidates, dSent, dEntries>>
utilVars == <<metaVars, jsonVars, dossierVars>>
pureVars == <<contentVars, scoreVars, chunkVars, utilVars>>
engineVars == <<batchVars, packVars, pureVars>>
vars == <<storeVars, engineVars>>

-----------------------------------------------------------------------------
(* Bounds *)

MaxRequests == 3       \* client requests that start work, of both kinds
MaxPosts == 2          \* POST /analysis requests
MaxScoreReqs == 2      \* POST score-file requests
MaxSelected == 1       \* files the AI selection can match in the repository

-----------------------------------------------------------------------------
(* JavaScript values *)

Undefined == "<undefined>"
Null == "<null>"
NoObj == 0

Posts == 1..MaxPosts

BodyRunIds == {"r1", Undefined}        \* req.body.runId: supplied, or omitted
BodyRepoUrls == {"u1", Undefined}      \* req.body.repoUrl: supplied, or omitted
StoreKeys == {"r1", "undefined", Undefined}

\* `${runId}` in a template literal or URL: undefined prints as "undefined".
TemplateStr(id) == IF id = Undefined THEN "undefined" ELSE id

\* runAnalysisAndScoring's default parameter runId = '' replaces undefined.
DefaultEmpty(id) == IF id = Undefined THEN "" ELSE id

\* analyzeRepo: runId = runId || new Date().toISOString()
OrTimestamp(id) == IF id = "" THEN "ts" ELSE id

DirKeys == {"r1", "undefined", "", "ts"}

Statuses == {"preparing", "selecting_files", "chunking_and_scoring", "final_review",
             "complete", "error"}

Terminal == {"complete", "error"}

Rank(s) ==
    CASE s = "preparing" -> 1
      [] s = "selecting_files" -> 2
      [] s = "chunking_and_scoring" -> 3
      [] s = "final_review" -> 4
      [] s = "complete" -> 5
      [] OTHER -> 6

\* A path is the sequence of its characters.
\* String.prototype.endsWith(suffix)
EndsWith(path, suffix) ==
    /\ Len(suffix) <= Len(path)
    /\ SubSeq(path, Len(path) - Len(suffix) + 1, Len(path)) = suffix

-----------------------------------------------------------------------------
(* Scorecards.  Scores are scaled integers: preliminaryProjectScore in      *)
(* tenths, multipliers in hundredths, finalProjectScore in thousandths.    *)

DOSSIER_BUDGET == 16000

NoFinal == -1

ScoredA(impact, tokens) == [filePath |-> <<"a">>, impactScore |-> impact, tokens |-> tokens]
ScoredB(impact, tokens) == [filePath |-> <<"b">>, impactScore |-> impact, tokens |-> tokens]

\* What generateScorecard can hand back for the selected files: the scored
\* files (as pushed, unsorted) and the preliminary score computed from them.
ScoringOutcomes(k) ==
    {[scoredFiles |-> <<>>, prelim |-> 0]}
    \cup (IF k >= 1
          THEN {[scoredFiles |-> <<ScoredA(30, 9000)>>, prelim |-> 60],
                [scoredFiles |-> <<ScoredA(30, 17000)>>, prelim |-> 60]}
          ELSE {})
    \cup (IF k >= 2
          THEN {[scoredFiles |-> <<ScoredA(10, 9000), ScoredB(30, 9000)>>, prelim |-> 45]}
          ELSE {})

\* A sort that leaves the list as it is.
KeepOrder(s) == s

\* Array.prototype.sort((a, b) => b.impactScore - a.impactScore): stable, descending.
RECURSIVE InsertByImpact(_, _)
InsertByImpact(s, x) ==
    IF s = <<>> THEN <<x>>
    ELSE IF Head(s).impactScore >= x.impactScore
         THEN <<Head(s)>> \o InsertByImpact(Tail(s), x)
         ELSE <<x>> \o s

RECURSIVE SortByImpactDesc(_)
SortByImpactDesc(s) ==
    IF s = <<>> THEN <<>>
    ELSE InsertByImpact(SortByImpactDesc(SubSeq(s, 1, Len(s) - 1)), s[Len(s)])

\* A dossier builder that admits every file, whatever the budget.
AdmitAll(sorted, tokensUsed) == [i \in 1..Len(sorted) |-> sorted[i].filePath]

\* _buildDossierWithGlobalTopImpact: the paths admitted, whole files only.
RECURSIVE AdmitGlobal(_, _)
AdmitGlobal(sorted, tokensUsed) ==
    IF sorted = <<>> THEN <<>>
    ELSE IF tokensUsed + Head(sorted).tokens <= DOSSIER_BUDGET
         THEN <<Head(sorted).filePath>> \o AdmitGlobal(Tail(sorted), tokensUsed + Head(sorted).tokens)
         ELSE AdmitGlobal(Tail(sorted), tokensUsed)

BuildDossierGlobal(scoredFiles) == AdmitGlobal(SortByImpactDesc(scoredFiles), 0)

\* The answers the final-review call can give through safeJsonChatCompletion:
\* null (every attempt failed), an object whose parsed JSON is null, or a
\* review whose final_score_multiplier is one of these (0: absent or falsy).
ReviewMultipliers == {0, 50, 200}

FinalAnswers ==
    {[kind |-> "null", fsm |-> 0], [kind |-> "parsedNull", fsm |-> 0]}
    \cup {[kind |-> "review", fsm |-> m] : m \in ReviewMultipliers}

\* performFinalReview's return: multiplier: review.final_score_multiplier || 1.0
ReviewMultiplier(fsm) == IF fsm = 0 THEN 100 ELSE fsm

\* runFinalReview: finalProjectScore = preliminaryProjectScore * multiplier
CalibratedScorecard(card, fsm) ==
    [card EXCEPT !.multiplier = ReviewMultiplier(fsm),
                 !.finalProjectScore = card.preliminaryProjectScore * ReviewMultiplier(fsm),
                 !.reviewed = TRUE]

PreliminaryScorecard(outcome) ==
    [preliminaryProjectScore |-> outcome.prelim,
     finalProjectScore |-> NoFinal,
     multiplier |-> 0,
     reviewed |-> FALSE,
     scoredFiles |-> SortByImpactDesc(outcome.scoredFiles)]

-----------------------------------------------------------------------------
(* The run store *)

NoState ==
    [alloc |-> FALSE, runId |-> Undefined, repoUrl |-> Undefined, status |-> "preparing",
     logHistory |-> <<>>, finalScorecard |-> <<>>, scoreCardPath |-> <<>>,
     error |-> Undefined, statusTrace |-> <<>>]

\* POST /analysis: the initial RunState.
InitialState(runId, repoUrl) ==
    [alloc |-> TRUE, runId |-> runId, repoUrl |-> repoUrl, status |-> "preparing",
     logHistory |-> <<[id |-> 1, message |-> "Initiating analysis pipeline..."]>>,
     finalScorecard |-> <<>>, scoreCardPath |-> <<>>, error |-> Undefined,
     statusTrace |-> <<"preparing">>]

\* updateRunState(runId, status, message) applied to the heap os under store st.
\* statusTrace is a history field: the statuses written to the object, in order.
UpdateRunState(os, st, runId, status, message) ==
    IF st[runId] = NoObj THEN os
    ELSE [os EXCEPT ![st[runId]] =
            [@ EXCEPT !.status = status,
                      !.logHistory = Append(@, [id |-> Len(@) + 1, message |-> message]),
                      !.statusTrace = Append(@, status)]]

\* A run of consecutive updateState calls, each <<status, message>>.
RECURSIVE Updates(_, _, _, _)
Updates(os, st, runId, us) ==
    IF us = <<>> THEN os
    ELSE Updates(UpdateRunState(os, st, runId, Head(us)[1], Head(us)[2]), st, runId, Tail(us))

CountCalls(runId, n) == [updateCalls EXCEPT ![runId] = @ + n]

NoDir == [chunking |-> FALSE, details |-> 0, prelim |-> <<>>, finals |-> <<>>]

NoLocal == [reportDir |-> "", card |-> <<>>, selected |-> 0, answer |-> "none"]

NoResp == [code |-> 0, runId |-> Undefined]

NoPoll == [code |-> 0, status |-> "preparing", logHistory |-> <<>>, report |-> <<>>, error |-> Null]

\* onComplete is a history field: the run was complete when the request came.
\* path and data are the arguments of the fs.writeFile call still under way.
NoScoreReq ==
    [pc |-> "idle", obj |-> NoObj, filePath |-> <<>>, code |-> 0, onComplete |-> FALSE,
     path |-> <<>>, data |-> <<>>]

-----------------------------------------------------------------------------
(* Part I: POST /analysis and the background worker *)

\* Requests received so far, of both kinds.
Started ==
    Cardinality({p \in Posts : pc[p] # "idle"})
    + Cardinality({i \in 1..MaxScoreReqs : sf[i].pc # "idle"})

RunKey(p) == req[p].runId

\* The catch block of startBackgroundAnalysis (server.ts:122-129) for a thrown
\* Error whose message is msg, entered from heap os after n updates of this
\* step: the error status and the error field both go to the RunState
\* currently stored under the run id.
CatchError(p, os, n, msg) ==
    LET o1 == UpdateRunState(os, analysisStore, RunKey(p), "error", "Error: " \o msg)
        k == analysisStore[RunKey(p)]
    IN /\ objs' = [o1 EXCEPT ![k].error = msg]
       /\ updateCalls' = CountCalls(RunKey(p), n + 1)
       /\ pc' = [pc EXCEPT ![p] = "halted"]

\* runAnalysisAndScoring from the NODE_ENV test (main.ts:594) to the first
\* await of generateScorecard, in production: the two updates of 610 and 614.
ScoringUpdates ==
    <<<<"chunking_and_scoring", "Preparing to score files...">>,
      <<"chunking_and_scoring", "Scoring files">>>>

\* POST /analysis up to its await of getRepoMetadata (server.ts:153-165,
\* repo.metadata.ts:18-31).
PostReceive(p, body) ==
    /\ pc[p] = "idle"
    /\ Started < MaxRequests
    /\ \A q \in Posts : q < p => pc[q] # "idle"
    /\ req' = [req EXCEPT ![p] = body]
    /\ IF body.repoUrl = Undefined
       THEN /\ resp' = [resp EXCEPT ![p] = [code |-> 400, runId |-> Undefined]]
            /\ pc' = [pc EXCEPT ![p] = "answered"]
            /\ UNCHANGED <<objs, updateCalls>>
       ELSE /\ resp' = resp
            /\ IF body.repoUrl \in repoMetadataCache
               THEN /\ pc' = [pc EXCEPT ![p] = "awaitMetadata"]
                    /\ UNCHANGED <<objs, updateCalls>>
               ELSE /\ objs' = UpdateRunState(objs, analysisStore, body.runId,
                                              "preparing", "Cloning repo...")
                    /\ updateCalls' = CountCalls(body.runId, 1)
                    /\ pc' = [pc EXCEPT ![p] = "awaitClone"]
    /\ UNCHANGED <<analysisStore, repoMetadataCache, disk, nodeEnv, local, sf>>
    /\ UNCHANGED engineVars

\* getRepoMetadata after cloneRepo (repo.metadata.ts:31-42); a failed clone or
\* walk rejects, and POST /analysis answers 500 (server.ts:185-188).
CloneReturn(p, ok) ==
    /\ pc[p] = "awaitClone"
    /\ IF ok
       THEN /\ repoMetadataCache' = repoMetadataCache \cup {req[p].repoUrl}
            /\ pc' = [pc EXCEPT ![p] = "awaitMetadata"]
            /\ resp' = resp
       ELSE /\ resp' = [resp EXCEPT ![p] = [code |-> 500, runId |-> Undefined]]
            /\ pc' = [pc EXCEPT ![p] = "answered"]
            /\ repoMetadataCache' = repoMetadataCache
    /\ UNCHANGED <<analysisStore, objs, disk, nodeEnv, req, local, updateCalls, sf>>
    /\ UNCHANGED engineVars

\* fs.readdirSync(reportPath) of run-<id>/final-reviews2, files only, in the
\* order of their modification times (server.ts:57-71); a missing directory
\* throws, which the empty catch treats like an empty one.
CacheFiles(d, id) == d[TemplateStr(id)].finals

\* files[0] after the sort by mtime, descending.  A file's content is <<>>
\* while it is open for writing and not yet written: JSON.parse of the empty
\* text throws, and the empty catch lets the pipeline run (server.ts:97-103).
MostRecent(files) == files[Len(files)]

\* POST /analysis from analysisStore.set to the 202 answer (server.ts:167-184),
\* with the synchronous start of startBackgroundAnalysis (server.ts:52-104)
\* and of runAnalysisAndScoring / analyzeRepo (main.ts:557-571, 368-371).
PostStore(p) ==
    /\ pc[p] = "awaitMetadata"
    /\ LET id == RunKey(p)
           st == [analysisStore EXCEPT ![id] = p]
           o0 == [objs EXCEPT ![p] = InitialState(id, req[p].repoUrl)]
           files == CacheFiles(disk, id)
           found == UpdateRunState(o0, st, id, "preparing", "Cache Found")
           \* the state the pipeline starts from, and the updateState calls made
           \* so far: a cache file that does not parse has been announced
           base == IF files # <<>> THEN found ELSE o0
           n0 == IF files # <<>> THEN 1 ELSE 0
           rasDir == DefaultEmpty(id)
       IN /\ analysisStore' = st
          /\ resp' = [resp EXCEPT ![p] = [code |-> 202, runId |-> id]]
          /\ IF files # <<>> /\ MostRecent(files).content # <<>>
             THEN \* the report cache holds a file: load the most recent one
                  LET mostRecent == MostRecent(files)
                      o2 == [found EXCEPT ![p].finalScorecard = mostRecent.content]
                      o3 == UpdateRunState(o2, st, id, "complete", "Analysis complete!")
                  IN /\ objs' = [o3 EXCEPT ![p].scoreCardPath = <<TemplateStr(id), mostRecent.name>>]
                     /\ updateCalls' = CountCalls(id, 2)
                     /\ pc' = [pc EXCEPT ![p] = "halted"]
                     /\ local' = local
             ELSE IF disk[rasDir].chunking
             THEN \* chunking-analysis.json exists: the report is read from it
                  LET o1 == UpdateRunState(base, st, id, "selecting_files",
                                           "Distilling README and identifying project context...")
                  IN /\ local' = [local EXCEPT ![p].reportDir = rasDir,
                                               ![p].selected = disk[rasDir].details]
                     /\ IF nodeEnv = "production"
                        THEN /\ objs' = Updates(o1, st, id, ScoringUpdates)
                             /\ updateCalls' = CountCalls(id, n0 + 3)
                             /\ pc' = [pc EXCEPT ![p] = "awaitScoring"]
                        ELSE /\ objs' = o1
                             /\ updateCalls' = CountCalls(id, n0 + 1)
                             /\ pc' = [pc EXCEPT ![p] = "awaitPrompt"]
             ELSE \* analyzeRepo up to its await of cloneRepo
                  /\ objs' = Updates(base, st, id,
                                <<<<"selecting_files",
                                    "Distilling README and identifying project context...">>,
                                  <<"preparing", "Cloning repo...">>>>)
                  /\ updateCalls' = CountCalls(id, n0 + 2)
                  /\ pc' = [pc EXCEPT ![p] = "awaitRepo"]
                  /\ local' = [local EXCEPT ![p].reportDir = OrTimestamp(rasDir)]
    /\ UNCHANGED <<repoMetadataCache, disk, nodeEnv, req, sf>>
    /\ UNCHANGED engineVars

\* analyzeRepo from cloneRepo's return to the first AI call of
\* getRelevantFiles (main.ts:371-384, 181-185); a failing clone, walk or
\* README read throws an Error.
RepoReturn(p, ok) ==
    /\ pc[p] = "awaitRepo"
    /\ IF ok
       THEN /\ objs' = UpdateRunState(objs, analysisStore, RunKey(p),
                                      "selecting_files", "Selecting files")
            /\ updateCalls' = CountCalls(RunKey(p), 1)
            /\ pc' = [pc EXCEPT ![p] = "awaitSelection"]
       ELSE CatchError(p, objs, 0, "clone failed")
    /\ UNCHANGED <<analysisStore, repoMetadataCache, disk, nodeEnv, req, resp, local, sf>>
    /\ UNCHANGED engineVars

\* The k updates "Chunking <file>..." of analyzeRepo's loop (main.ts:474).
RECURSIVE ChunkingUpdates(_)
ChunkingUpdates(k) ==
    IF k = 0 THEN <<>>
    ELSE <<<<"chunking_and_scoring", "Chunking file...">>>> \o ChunkingUpdates(k - 1)

\* getRelevantFiles's two AI calls return (main.ts:185-214), then analyzeRepo
\* to its end (main.ts:387-546) and runAnalysisAndScoring to the prompt or to
\* generateScorecard (main.ts:572-615).  sel.ok = FALSE: a call rejected, the
\* selection did not parse, or no file was selected; sel.k: files matched.
SelectionReturn(p, sel) ==
    /\ pc[p] = "awaitSelection"
    /\ IF ~sel.ok
       THEN /\ CatchError(p, objs, 0, "no files were selected")
            /\ UNCHANGED <<disk, local>>
       ELSE LET id == RunKey(p)
                us == <<<<"selecting_files", "AI selected files for analysis.">>,
                        <<"chunking_and_scoring", "Starting file chunking process...">>>>
                      \o ChunkingUpdates(sel.k)
                      \o <<<<"chunking_and_scoring", "Chunking complete. Aggregating results...">>>>
            IN /\ disk' = [disk EXCEPT ![local[p].reportDir].chunking = TRUE,
                                       ![local[p].reportDir].details = sel.k]
               /\ local' = [local EXCEPT ![p].selected = sel.k]
               /\ IF nodeEnv = "production"
                  THEN /\ objs' = Updates(objs, analysisStore, id, us \o ScoringUpdates)
                       /\ updateCalls' = CountCalls(id, Len(us) + 2)
                       /\ pc' = [pc EXCEPT ![p] = "awaitScoring"]
                  ELSE /\ objs' = Updates(objs, analysisStore, id, us)
                       /\ updateCalls' = CountCalls(id, Len(us))
                       /\ pc' = [pc EXCEPT ![p] = "awaitPrompt"]
    /\ UNCHANGED <<analysisStore, repoMetadataCache, nodeEnv, req, resp, sf>>
    /\ UNCHANGED engineVars

\* promptUser answers (main.ts:596-602).  Any answer but "yes" makes
\* runAnalysisAndScoring return undefined, and server.ts:109 then throws a
\* TypeError reading mainDomain of undefined.
PromptReturn(p, yes) ==
    /\ pc[p] = "awaitPrompt"
    /\ IF yes
       THEN /\ objs' = Updates(objs, analysisStore, RunKey(p), ScoringUpdates)
            /\ updateCalls' = CountCalls(RunKey(p), 2)
            /\ pc' = [pc EXCEPT ![p] = "awaitScoring"]
       ELSE CatchError(p, objs, 0, "Cannot read properties of undefined")
    /\ UNCHANGED <<analysisStore, repoMetadataCache, disk, nodeEnv, req, resp, local, sf>>
    /\ UNCHANGED engineVars

\* generateScorecard returns (main.ts:615-629), then server.ts:108-116 and the
\* synchronous part of runFinalReview / performFinalReview up to the AI call
\* (main.ts:634-651, scorer.ts 1204-1239).  out.ok = FALSE: scoring threw.
ScoringReturn(p, out) ==
    /\ pc[p] = "awaitScoring"
    /\ [scoredFiles |-> out.scoredFiles, prelim |-> out.prelim] \in ScoringOutcomes(local[p].selected)
    /\ IF ~out.ok
       THEN /\ CatchError(p, objs, 0, "scoring failed")
            /\ UNCHANGED <<disk, local>>
       ELSE LET id == RunKey(p)
                card == PreliminaryScorecard(out)
                o1 == UpdateRunState(objs, analysisStore, id,
                                     "chunking_and_scoring", "Scoring Complete")
                d1 == [disk EXCEPT ![local[p].reportDir].prelim = <<card>>]
                o2 == UpdateRunState(o1, analysisStore, id,
                                     "final_review", "Performing final holistic review...")
                found == d1[TemplateStr(id)].prelim
            IN /\ disk' = d1
               /\ IF found = <<>>
                  THEN /\ CatchError(p, o2, 2, "Preliminary scorecard not found")
                       /\ local' = local
                  ELSE IF BuildDossierGlobal(found[1].scoredFiles) = <<>>
                  THEN /\ CatchError(p, o2, 2, "0 files sent for eval")
                       /\ local' = local
                  ELSE /\ objs' = o2
                       /\ updateCalls' = CountCalls(id, 2)
                       /\ local' = [local EXCEPT ![p].card = found]
                       /\ pc' = [pc EXCEPT ![p] = "awaitFinal"]
    /\ UNCHANGED <<analysisStore, repoMetadataCache, nodeEnv, req, resp, sf>>
    /\ UNCHANGED engineVars

\* The final-review call returns (scorer.ts 1239-1257), then runFinalReview
\* (main.ts:653-675) and server.ts:116-120.
\*   null        the destructuring of null throws a TypeError, an Error;
\*   parsedNull  "throw console.error(...)" throws undefined, and the catch
\*               block itself throws reading error.message: the worker's
\*               promise rejects and no status is written;
\*   review      the scorecard is calibrated, saved under final-reviews2 and
\*               set on the worker's own RunState; 'complete' goes to the
\*               RunState stored under the run id.
FinalReturn(p, ans) ==
    /\ pc[p] = "awaitFinal"
    /\ local' = [local EXCEPT ![p].answer = ans.kind]
    /\ CASE ans.kind = "null" ->
              /\ CatchError(p, objs, 0, "Cannot destructure property 'obj' of null")
              /\ disk' = disk
         [] ans.kind = "parsedNull" ->
              /\ pc' = [pc EXCEPT ![p] = "crashed"]
              /\ UNCHANGED <<objs, updateCalls, disk>>
         [] OTHER ->
              LET id == RunKey(p)
                  card == CalibratedScorecard(local[p].card[1], ans.fsm)
                  o1 == [objs EXCEPT ![p].scoreCardPath = <<>>,
                                     ![p].finalScorecard = <<card>>]
              IN /\ disk' = [disk EXCEPT ![TemplateStr(id)].finals =
                                 Append(@, [name |-> Len(@) + 1, content |-> <<card>>])]
                 /\ objs' = UpdateRunState(o1, analysisStore, id, "complete", "Analysis complete!")
                 /\ updateCalls' = CountCalls(id, 1)
                 /\ pc' = [pc EXCEPT ![p] = "halted"]
    /\ UNCHANGED <<analysisStore, repoMetadataCache, nodeEnv, req, resp, sf>>
    /\ UNCHANGED engineVars

-----------------------------------------------------------------------------
(* GET /analysis/:runId/status (server.ts:195-215).  A route parameter is   *)
(* always a string.                                                        *)

UrlParams == {"r1", "undefined"}

StatusResponse(param) ==
    IF analysisStore[param] = NoObj
    THEN [NoPoll EXCEPT !.code = 404]
    ELSE LET state == objs[analysisStore[param]]
         IN [code |-> 200,
             status |-> state.status,
             logHistory |-> state.logHistory,
             report |-> IF state.status = "complete" THEN state.finalScorecard ELSE <<>>,
             error |-> IF state.status = "error" THEN state.error ELSE Null]

Poll(param) ==
    /\ StatusResponse(param).code \in {200, 404}
    /\ UNCHANGED vars

-----------------------------------------------------------------------------
(* POST /analysis/:runId/score-file (server.ts:218-267) *)

ScoreReqs == 1..MaxScoreReqs

RepoFiles == {<<"a">>, <<"b">>, <<"c">>}          \* metadata.allFiles of the repository
ScoreFilePaths == {<<"a">>, <<"c">>, <<"x">>}     \* req.body.filePath

AlreadyScored(state, filePath) ==
    /\ state.finalScorecard # <<>>
    /\ \E i \in 1..Len(state.finalScorecard[1].scoredFiles) :
          EndsWith(state.finalScorecard[1].scoredFiles[i].filePath, filePath)

\* scoreSingleFile(state, client, file): the ScoredFile of a file scored on
\* demand; its impact is above that of the files the pipeline scored, so that
\* the sort after the push has to move it.
ScoreSingleFile(filePath) == [filePath |-> filePath, impactScore |-> 40, tokens |-> 9000]

\* A write to the file named: it gets the content and becomes the most
\* recently modified file of its directory (the files are kept in mtime order).
WriteFile(files, name, content) ==
    LET other(f) == f.name # name
    IN Append(SelectSeq(files, other), [name |-> name, content |-> content])

\* From the request to the await of scoreSingleFile (server.ts:220-256).
ScoreFileRequest(i, param, filePath) ==
    /\ sf[i].pc = "idle"
    /\ Started < MaxRequests
    /\ \A j \in ScoreReqs : j < i => sf[j].pc # "idle"
    /\ IF analysisStore[param] = NoObj
       THEN sf' = [sf EXCEPT ![i] = [NoScoreReq EXCEPT !.pc = "answered", !.code = 404]]
       ELSE LET k == analysisStore[param]
            IN IF filePath \notin RepoFiles
               THEN sf' = [sf EXCEPT ![i] = [NoScoreReq EXCEPT !.pc = "answered", !.code = 404]]
               ELSE IF AlreadyScored(objs[k], filePath)
               THEN sf' = [sf EXCEPT ![i] = [NoScoreReq EXCEPT !.pc = "answered", !.code = 200]]
               ELSE sf' = [sf EXCEPT ![i] = [pc |-> "awaitScore", obj |-> k,
                                             filePath |-> filePath, code |-> 0,
                                             onComplete |-> objs[k].status = "complete"]]
    /\ UNCHANGED <<analysisStore, objs, repoMetadataCache, disk, nodeEnv, pc, req, resp,
                   local, updateCalls>>
    /\ UNCHANGED engineVars

\* scoreSingleFile returns or throws (server.ts:256-266).  The push and the
\* sort act on state.finalScorecard when there is one; fs.writeFile throws
\* synchronously when the path or the data is undefined, which answers 500.
\* Otherwise the write is under way when the request is answered with 200.
ScoreFileReturn(i, ok) ==
    /\ sf[i].pc = "awaitScore"
    /\ LET k == sf[i].obj
           state == objs[k]
       IN IF ~ok
          THEN /\ sf' = [sf EXCEPT ![i] = [NoScoreReq EXCEPT !.pc = "answered", !.code = 500]]
               /\ UNCHANGED <<objs, disk>>
          ELSE IF state.finalScorecard = <<>>
          THEN /\ sf' = [sf EXCEPT ![i] = [NoScoreReq EXCEPT !.pc = "answered", !.code = 500]]
               /\ UNCHANGED <<objs, disk>>
          ELSE LET card == [state.finalScorecard[1] EXCEPT !.scoredFiles =
                               SortByImpactDesc(Append(@, ScoreSingleFile(sf[i].filePath)))]
               IN /\ objs' = [objs EXCEPT ![k].finalScorecard = <<card>>]
                  /\ IF state.scoreCardPath = <<>>
                     THEN /\ sf' = [sf EXCEPT ![i] = [NoScoreReq EXCEPT !.pc = "answered", !.code = 500]]
                          /\ disk' = disk
                     ELSE /\ sf' = [sf EXCEPT ![i] = [NoScoreReq EXCEPT !.pc = "awaitOpen", !.code = 200,
                                                                       !.path = state.scoreCardPath,
                                                                       !.data = <<card>>]]
                          /\ disk' = disk
    /\ UNCHANGED <<analysisStore, repoMetadataCache, nodeEnv, pc, req, resp, local,
                   updateCalls>>
    /\ UNCHANGED engineVars

\* fs.writeFile(path, data, callback) opens the file with flag 'w', which
\* empties it, and writes the data from the callback of the open.
WriteOpen(i) ==
    /\ sf[i].pc = "awaitOpen"
    /\ disk' = [disk EXCEPT ![sf[i].path[1]].finals = WriteFile(@, sf[i].path[2], <<>>)]
    /\ sf' = [sf EXCEPT ![i].pc = "awaitWrite"]
    /\ UNCHANGED <<analysisStore, objs, repoMetadataCache, nodeEnv, pc, req, resp, local,
                   updateCalls>>
    /\ UNCHANGED engineVars

WriteData(i) ==
    /\ sf[i].pc = "awaitWrite"
    /\ disk' = [disk EXCEPT ![sf[i].path[1]].finals = WriteFile(@, sf[i].path[2], sf[i].data)]
    /\ sf' = [sf EXCEPT ![i] = [NoScoreReq EXCEPT !.pc = "answered", !.code = 200]]
    /\ UNCHANGED <<analysisStore, objs, repoMetadataCache, nodeEnv, pc, req, resp, local,
                   updateCalls>>
    /\ UNCHANGED engineVars

-----------------------------------------------------------------------------
(* Part I: specification *)

BatchIdle ==
    /\ bPc = "off"
    /\ bBatch = <<>>
    /\ bFirst = <<>>
    /\ bRetryBatch = <<>>
    /\ bRetry = <<>>
    /\ bResult = <<>>
    /\ bCalls = 0

PackIdle ==
    /\ pkPc = "off"
    /\ pkFiles = <<>>
    /\ pkBatchable = <<>>
    /\ pkLarge = <<>>
    /\ pkRemaining = <<>>
    /\ pkBatches = <<>>

ContentIdle ==
    /\ fcPc = "off"
    /\ fcQuery = <<>>
    /\ fcRes = <<>>

ScoreIdle ==
    /\ fPc = "off"
    /\ fLeft = 0
    /\ fGroups = <<>>
    /\ fResult = <<>>

ChunkIdle ==
    /\ cPc = "off"
    /\ cFile = <<>>
    /\ cOut = <<>>

MetaIdle ==
    /\ mPc = <<>>
    /\ mUrl = <<>>
    /\ mRet = <<>>
    /\ metadataCache = <<>>
    /\ repoDir = <<>>
    /\ cloneCalls = <<>>

JsonIdle ==
    /\ jPc = "off"
    /\ jMaxRetries = 0
    /\ jAttempt = 0
    /\ jCalls = <<>>
    /\ jResult = <<>>

DossierIdle ==
    /\ dPc = "off"
    /\ dStrategy = "off"
    /\ dScoredFiles = <<>>
    /\ dCandidates = <<>>
    /\ dSent = <<>>
    /\ dEntries = <<>>

UtilIdle == MetaIdle /\ JsonIdle /\ DossierIdle

PureIdle == ContentIdle /\ ScoreIdle /\ ChunkIdle /\ UtilIdle

EmptyDisk == [d \in DirKeys |-> NoDir]

\* The reports directory a server process can find when it starts: empty, or
\* with what two runs of r1 under an earlier process left.
CachedDisk ==
    LET card == PreliminaryScorecard([scoredFiles |-> <<ScoredA(30, 9000)>>, prelim |-> 60])
    IN [EmptyDisk EXCEPT !["r1"] =
           [chunking |-> TRUE, details |-> 1, prelim |-> <<card>>,
            finals |-> <<[name |-> 1, content |-> <<CalibratedScorecard(card, 50)>>],
                         [name |-> 2, content |-> <<CalibratedScorecard(card, 200)>>]>>]]

StoreInit ==
    /\ analysisStore = [k \in StoreKeys |-> NoObj]
    /\ objs = [p \in Posts |-> NoState]
    /\ repoMetadataCache = {}
    /\ nodeEnv \in {"production", "development"}
    /\ pc = [p \in Posts |-> "idle"]
    /\ req = [p \in Posts |-> [repoUrl |-> Undefined, runId |-> Undefined]]
    /\ resp = [p \in Posts |-> NoResp]
    /\ local = [p \in Posts |-> NoLocal]
    /\ updateCalls = [k \in StoreKeys |-> 0]
    /\ sf = [i \in ScoreReqs |-> NoScoreReq]

Init ==
    /\ StoreInit
    /\ disk \in {EmptyDisk, CachedDisk}
    /\ BatchIdle
    /\ PackIdle
    /\ PureIdle

\* req.body of POST /analysis (server.ts:153).
RequestBodies == {[repoUrl |-> u, runId |-> r] : u \in BodyRepoUrls, r \in BodyRunIds}

\* What runSelection resolves or rejects with: k files selected.
SelectionResults == {[ok |-> ok, k |-> k] : ok \in BOOLEAN, k \in 0..MaxSelected}

\* What the scoring stage resolves or rejects with.
ScoringResults ==
    {[ok |-> ok, scoredFiles |-> o.scoredFiles, prelim |-> o.prelim] :
        ok \in BOOLEAN, o \in ScoringOutcomes(MaxSelected)}

Next ==
    \/ \E p \in Posts, body \in RequestBodies : PostReceive(p, body)
    \/ \E p \in Posts, ok \in BOOLEAN : CloneReturn(p, ok)
    \/ \E p \in Posts : PostStore(p)
    \/ \E p \in Posts, ok \in BOOLEAN : RepoReturn(p, ok)
    \/ \E p \in Posts, result \in SelectionResults : SelectionReturn(p, result)
    \/ \E p \in Posts, yes \in BOOLEAN : PromptReturn(p, yes)
    \/ \E p \in Posts, result \in ScoringResults : ScoringReturn(p, result)
    \/ \E p \in Posts, ans \in FinalAnswers : FinalReturn(p, ans)
    \/ \E param \in UrlParams : Poll(param)
    \/ \E i \in ScoreReqs, param \in UrlParams, f \in ScoreFilePaths :
          ScoreFileRequest(i, param, f)
    \/ \E i \in ScoreReqs, ok \in BOOLEAN : ScoreFileReturn(i, ok)
    \/ \E i \in ScoreReqs : WriteOpen(i)
    \/ \E i \in ScoreReqs : WriteData(i)

Spec == Init /\ [][Next]_vars

-----------------------------------------------------------------------------
(* Part II: ScoringEngine.scoreFileBatch (scorer.ts 845-1027)               *)
(* averageQuality3 and impactScore3 are three times averageQuality and     *)
(* impactScore, which keeps the division by 3 out of the integers.         *)

MaxBatch == 2          \* files in a batch
MaxReviews == 2        \* reviews in one AI answer

BatchPaths == {<<"a">>, <<"b">>, <<"b", "a">>}
ReviewPaths == {<<>>, <<"a">>, <<"b">>, <<"b", "a">>, <<"z">>}   \* <<>>: file_path missing
ReviewScores == {0, 6}

SeqsUpTo(S, n) == UNION {[1..k -> S] : k \in 0..n}

Distinct(s) == \A i, j \in 1..Len(s) : i # j => s[i] # s[j]

\* A batch: FileChunkGroups with distinct file paths.
Batches == {b \in SeqsUpTo(BatchPaths, MaxBatch) : Distinct(b)}

Reviews == [file_path : ReviewPaths, complexity_score : ReviewScores, quality : {6}]

\* What safeJsonChatCompletion gives attemptBatchScoring: valid = FALSE for
\* null, a null obj or an obj without a reviews array.
BatchAnswers ==
    {[valid |-> FALSE, reviews |-> <<>>]}
    \cup {[valid |-> TRUE, reviews |-> r] : r \in SeqsUpTo(Reviews, MaxReviews)}

\* createEmptyScoredFile(fileGroup, isRetry)
CreateEmptyScoredFile(filePath, isRetry) ==
    [filePath |-> filePath, impactScore3 |-> 0, averageComplexity |-> 0,
     averageQuality3 |-> 0,
     score |-> [complexity_score |-> 0, code_quality_score |-> 0,
                maintainability_score |-> 0, best_practices_adherence |-> 0],
     retries |-> IF isRetry THEN 1 ELSE 0, hadError |-> TRUE]

\* The ScoredFile pushed for a matched review (scorer.ts 950-970).
ReviewedScoredFile(filePath, review, isRetry) ==
    [filePath |-> filePath,
     impactScore3 |-> (3 * review.quality) * review.complexity_score,
     averageComplexity |-> review.complexity_score,
     averageQuality3 |-> 3 * review.quality,
     score |-> [complexity_score |-> review.complexity_score,
                code_quality_score |-> review.quality,
                maintainability_score |-> review.quality,
                best_practices_adherence |-> review.quality],
     retries |-> IF isRetry THEN 1 ELSE 0, hadError |-> FALSE]

\* Array.prototype.find over filesInBatchMap.values(): the first file left in
\* the map, in insertion order, whose path ends with the review's file_path.
\* 0 when there is none.
MatchIndex(left, reviewPath) ==
    LET hits == {i \in 1..Len(left) : EndsWith(left[i], reviewPath)}
    IN IF hits = {} THEN 0 ELSE CHOOSE i \in hits : \A j \in hits : i <= j

RemoveAt(s, i) == SubSeq(s, 1, i - 1) \o SubSeq(s, i + 1, Len(s))

\* The loop over the reviews (scorer.ts 927-978): left is filesInBatchMap,
\* done is successfullyScoredFiles.
RECURSIVE Reconcile(_, _, _, _)
Reconcile(reviews, left, done, isRetry) ==
    IF reviews = <<>>
    THEN [left |-> left, done |-> done]
    ELSE LET review == Head(reviews)
             i == MatchIndex(left, review.file_path)
         IN IF review.file_path = <<>> \/ i = 0
            THEN Reconcile(Tail(reviews), left, done, isRetry)
            ELSE Reconcile(Tail(reviews), RemoveAt(left, i),
                           Append(done, ReviewedScoredFile(left[i], review, isRetry)), isRetry)

EmptiesFor(left, isRetry) == [i \in 1..Len(left) |-> CreateEmptyScoredFile(left[i], isRetry)]

\* attemptBatchScoring(batch, ..., isRetry).scoredFiles for the answer given.
AttemptBatchScoring(batch, answer, isRetry) ==
    IF ~answer.valid
    THEN <<>>
    ELSE LET r == Reconcile(answer.reviews, batch, <<>>, isRetry)
         IN r.done \o EmptiesFor(r.left, isRetry)

\* scoreFileBatch's reconciliation (scorer.ts 859-860)
SuccessfulFiles(scoredFiles) ==
    LET ok(sfile) == ~sfile.hadError IN SelectSeq(scoredFiles, ok)

FailedFiles(batch, successful) ==
    LET failed(path) == ~\E i \in 1..Len(successful) : successful[i].filePath = path
    IN SelectSeq(batch, failed)

\* scoreFileBatch up to the return of the first attempt (scorer.ts 851-870).
BatchFirstReturn(answer) ==
    /\ bPc = "first"
    /\ LET first == AttemptBatchScoring(bBatch, answer, FALSE)
           failed == FailedFiles(bBatch, SuccessfulFiles(first))
       IN /\ bFirst' = first
          /\ bCalls' = bCalls + 1
          /\ IF failed = <<>>
             THEN /\ bResult' = first
                  /\ bPc' = "done"
                  /\ UNCHANGED bRetryBatch
             ELSE /\ bRetryBatch' = failed
                  /\ bPc' = "retry"
                  /\ UNCHANGED bResult
    /\ UNCHANGED <<bBatch, bRetry, storeVars, packVars, pureVars>>

\* The retry attempt returns and the results are merged (scorer.ts 870-873).
BatchRetryReturn(answer) ==
    /\ bPc = "retry"
    /\ LET retry == AttemptBatchScoring(bRetryBatch, answer, TRUE)
       IN /\ bRetry' = retry
          /\ bResult' = SuccessfulFiles(bFirst) \o retry
    /\ bCalls' = bCalls + 1
    /\ bPc' = "done"
    /\ UNCHANGED <<bBatch, bFirst, bRetryBatch, storeVars, packVars, pureVars>>

\* scoreFileBatch is entered with a batch; an empty batch returns at once.
BatchInit ==
    /\ StoreInit
    /\ disk = EmptyDisk
    /\ nodeEnv = "production"
    /\ bBatch \in Batches
    /\ bPc = IF bBatch = <<>> THEN "done" ELSE "first"
    /\ bFirst = <<>>
    /\ bRetryBatch = <<>>
    /\ bRetry = <<>>
    /\ bResult = <<>>
    /\ bCalls = 0
    /\ PackIdle
    /\ PureIdle

BatchNext ==
    \/ \E answer \in BatchAnswers : BatchFirstReturn(answer)
    \/ \E answer \in BatchAnswers : BatchRetryReturn(answer)

SpecBatch == BatchInit /\ [][BatchNext]_vars

-----------------------------------------------------------------------------
(* Part III: ScoringEngine.generateScorecard, partition and bin packing     *)
(* (scorer.ts 1037-1094).  A file is a FileChunkGroup reduced to its        *)
(* position in dataForScorer, its sendStrategy and its finalTokenCount.     *)

MaxFiles == 3          \* files handed to generateScorecard

MAX_BATCH_BUDGET == 5100

SendStrategies == {"full_file", "single_group", "multiple_groups", "unprocessed"}
PackTokens == {0, 900, 1500, 2550, 4000, 5099, 5100}

FileLists ==
    UNION {[1..n -> [sendStrategy : SendStrategies, finalTokenCount : PackTokens]] : n \in 0..MaxFiles}

\* dataForScorer: the files with their positions.
WithIds(list) ==
    [i \in 1..Len(list) |-> [id |-> i, sendStrategy |-> list[i].sendStrategy,
                             finalTokenCount |-> list[i].finalTokenCount]]

BatchableLoose(file) ==
    /\ file.sendStrategy \in {"full_file", "single_group"}
    /\ file.finalTokenCount <= MAX_BATCH_BUDGET

\* The test of the partition loop (scorer.ts 1045).
Batchable(file) ==
    /\ file.sendStrategy \in {"full_file", "single_group"}
    /\ file.finalTokenCount < MAX_BATCH_BUDGET

FitsAlways(currentBatchTokens, file) == file.finalTokenCount >= 0

\* The test of the packing loop (scorer.ts 1072).
Fits(currentBatchTokens, file) ==
    currentBatchTokens + file.finalTokenCount <= MAX_BATCH_BUDGET

\* batchableFiles.sort((a, b) => b.finalTokenCount - a.finalTokenCount): stable.
RECURSIVE InsertByTokens(_, _)
InsertByTokens(s, x) ==
    IF s = <<>> THEN <<x>>
    ELSE IF Head(s).finalTokenCount >= x.finalTokenCount
         THEN <<Head(s)>> \o InsertByTokens(Tail(s), x)
         ELSE <<x>> \o s

RECURSIVE SortByTokensDesc(_)
SortByTokensDesc(s) ==
    IF s = <<>> THEN <<>>
    ELSE InsertByTokens(SortByTokensDesc(SubSeq(s, 1, Len(s) - 1)), s[Len(s)])

\* One pass of the for loop over remainingFiles (scorer.ts 1068-1083): the
\* batch built and the files left for the next pass.
RECURSIVE FillBatch(_, _, _, _)
FillBatch(remaining, currentBatch, currentBatchTokens, skipped) ==
    IF remaining = <<>>
    THEN [batch |-> currentBatch, rest |-> skipped]
    ELSE LET file == Head(remaining)
         IN IF Fits(currentBatchTokens, file)
            THEN FillBatch(Tail(remaining), Append(currentBatch, file),
                           currentBatchTokens + file.finalTokenCount, skipped)
            ELSE FillBatch(Tail(remaining), currentBatch, currentBatchTokens,
                           Append(skipped, file))

\* generateScorecard's partition and sort (scorer.ts 1037-1055).
Partition ==
    /\ pkPc = "partition"
    /\ LET batchable == SortByTokensDesc(SelectSeq(pkFiles, Batchable))
           NotBatchable(file) == ~Batchable(file)
       IN /\ pkBatchable' = batchable
          /\ pkLarge' = SelectSeq(pkFiles, NotBatchable)
          /\ pkRemaining' = batchable
          /\ pkPc' = IF batchable = <<>> THEN "done" ELSE "pack"
    /\ UNCHANGED <<pkFiles, pkBatches, storeVars, batchVars, pureVars>>

\* One iteration of the while loop (scorer.ts 1063-1090).
PackBatch ==
    /\ pkPc = "pack"
    /\ LET r == FillBatch(pkRemaining, <<>>, 0, <<>>)
       IN /\ pkBatches' = Append(pkBatches, r.batch)
          /\ pkRemaining' = r.rest
          /\ pkPc' = IF r.rest = <<>> THEN "done" ELSE "pack"
    /\ UNCHANGED <<pkFiles, pkBatchable, pkLarge, storeVars, batchVars, pureVars>>

PackInit ==
    /\ StoreInit
    /\ disk = EmptyDisk
    /\ nodeEnv = "production"
    /\ BatchIdle
    /\ pkPc = "partition"
    /\ pkFiles \in {WithIds(list) : list \in FileLists}
    /\ pkBatchable = <<>>
    /\ pkLarge = <<>>
    /\ pkRemaining = <<>>
    /\ pkBatches = <<>>
    /\ PureIdle

PackNext ==
    \/ Partition
    \/ PackBatch

SpecPack == PackInit /\ [][PackNext]_vars

-----------------------------------------------------------------------------
(* Part IV: GET /analysis/:runId/file-content (server.ts:269-317).  A path  *)
(* is a sequence of segments, absolute or relative; the query's filePath is *)
(* <<>> when the parameter is missing and <<path>> otherwise.               *)

MaxSegments == 3       \* segments of the requested filePath

CWD == <<"app">>                          \* process.cwd()
LOCAL_REPO_DIR == <<"repo_cache">>        \* config.ts:10, a relative path

\* path.basename(repoUrl, '.git')
RepoName(repoUrl) == "r"

PathSegments == {"..", "a", "o", "env", "app", "repo_cache", "r"}

QueryFilePaths ==
    {<<>>} \cup {<<[abs |-> b, segs |-> sg]>> :
                     b \in BOOLEAN, sg \in SeqsUpTo(PathSegments, MaxSegments)}

\* The files and directories of the machine: the clone of the repository, the
\* clone of another repository, and a file of the server itself.
Files == {<<"app", "repo_cache", "r", "a">>,
          <<"app", "repo_cache", "o", "a">>,
          <<"app", "env">>}

Directories == {SubSeq(f, 1, n) : f \in Files, n \in 0..2} \cup {<<"app", "repo_cache", "r">>, <<"app", "repo_cache", "o">>}

\* Walking the segments from a directory: '..' goes to the parent, and the
\* root is its own parent.
RECURSIVE Walk(_, _)
Walk(dir, segs) ==
    IF segs = <<>> THEN dir
    ELSE IF Head(segs) = ".."
         THEN Walk(IF dir = <<>> THEN <<>> ELSE SubSeq(dir, 1, Len(dir) - 1), Tail(segs))
         ELSE Walk(Append(dir, Head(segs)), Tail(segs))

\* path.resolve(from, to) for a relative directory `from`: an absolute `to`
\* replaces it, a relative one is walked from it; the result is absolute.
PathResolve(from, to) ==
    IF to.abs THEN Walk(<<>>, to.segs) ELSE Walk(Walk(CWD, from), to.segs)

\* path.join(APP_CONFIG.LOCAL_REPO_DIR, repoName)
RepoCachePath(state) == Append(LOCAL_REPO_DIR, RepoName(state.repoUrl))

NoContent == [code |-> 0, content |-> <<>>]

\* The handler.  !filePath also holds for the empty string.  existsSync holds
\* for a directory too, and readFileSync of a directory throws, which the
\* catch answers with 500.  content names the file whose bytes are sent.
FileContentResponse(runId, filePath) ==
    IF filePath = <<>> \/ (~filePath[1].abs /\ filePath[1].segs = <<>>)
    THEN [NoContent EXCEPT !.code = 400]
    ELSE IF analysisStore[runId] = NoObj
    THEN [NoContent EXCEPT !.code = 404]
    ELSE LET state == objs[analysisStore[runId]]
             absoluteFilePath == PathResolve(RepoCachePath(state), filePath[1])
         IN IF absoluteFilePath \in Files
            THEN [code |-> 200, content |-> <<absoluteFilePath>>]
            ELSE IF absoluteFilePath \in Directories
            THEN [NoContent EXCEPT !.code = 500]
            ELSE [NoContent EXCEPT !.code = 404]

FileContent(runId, filePath) ==
    /\ fcPc = "idle"
    /\ fcPc' = "answered"
    /\ fcQuery' = <<[runId |-> runId, filePath |-> filePath]>>
    /\ fcRes' = <<FileContentResponse(runId, filePath)>>
    /\ UNCHANGED <<storeVars, batchVars, packVars, scoreVars, chunkVars, utilVars>>

\* The server after one accepted POST /analysis for run r1 of repository u1.
ContentInit ==
    /\ analysisStore = [k \in StoreKeys |-> IF k = "r1" THEN 1 ELSE NoObj]
    /\ objs = [p \in Posts |-> IF p = 1 THEN InitialState("r1", "u1") ELSE NoState]
    /\ repoMetadataCache = {"u1"}
    /\ disk = EmptyDisk
    /\ nodeEnv \in {"production", "development"}
    /\ pc = [p \in Posts |-> "idle"]
    /\ req = [p \in Posts |-> [repoUrl |-> Undefined, runId |-> Undefined]]
    /\ resp = [p \in Posts |-> NoResp]
    /\ local = [p \in Posts |-> NoLocal]
    /\ updateCalls = [k \in StoreKeys |-> 0]
    /\ sf = [i \in ScoreReqs |-> NoScoreReq]
    /\ BatchIdle
    /\ PackIdle
    /\ fcPc = "idle"
    /\ fcQuery = <<>>
    /\ fcRes = <<>>
    /\ ScoreIdle
    /\ ChunkIdle
    /\ UtilIdle

ContentNext ==
    \E runId \in UrlParams, filePath \in QueryFilePaths : FileContent(runId, filePath)

SpecContent == ContentInit /\ [][ContentNext]_vars

-----------------------------------------------------------------------------
(* Part V: ScoringEngine.scoreFile (scorer.ts 742-843).  The groups of the  *)
(* file are scored one AI call after the other; the averages and the impact *)
(* score are computed when the last call has returned.  A quotient of       *)
(* JavaScript numbers is kept as numerator and denominator; the             *)
(* denominator 0 stands for NaN (0 / 0).                                    *)

MaxGroups == 2         \* groups of the file handed to scoreFile

SubScores == {3, 9}               \* values of the three quality scores
ComplexityScores == {0, 5}        \* values of complexity_score

\* What safeJsonChatCompletion can give for a group: null, or the AI's score.
GroupAnswers ==
    {[ok |-> FALSE, code_quality_score |-> 0, maintainability_score |-> 0,
      best_practices_adherence |-> 0, complexity_score |-> 0]}
    \cup {[ok |-> TRUE, code_quality_score |-> q, maintainability_score |-> m,
           best_practices_adherence |-> b, complexity_score |-> c] :
             q \in SubScores, m \in SubScores, b \in SubScores, c \in ComplexityScores}

\* The ScoredChunkGroup pushed for an answer (scorer.ts 776-801): a null
\* answer gives the zero score with usage: null.
ScoredChunkGroup(answer) ==
    [score |-> [code_quality_score |-> answer.code_quality_score,
                maintainability_score |-> answer.maintainability_score,
                best_practices_adherence |-> answer.best_practices_adherence,
                complexity_score |-> answer.complexity_score],
     usageIsNull |-> ~answer.ok]

Quotient(num, den) == [num |-> num, den |-> den]
Times(a, b) == Quotient(a.num * b.num, a.den * b.den)

RECURSIVE SumTo(_, _)
SumTo(numbers, n) == IF n = 0 THEN 0 ELSE numbers[n] + SumTo(numbers, n - 1)

SumSeq(numbers) == SumTo(numbers, Len(numbers))

\* scoreFile after its loop (scorer.ts 804-842).  The reduce over g.usage
\* throws a TypeError when a group has usage: null.
ScoreFileResult(scoredChunkGroups) ==
    LET n == Len(scoredChunkGroups)
        score(i) == scoredChunkGroups[i].score
        \* the forEach of 806-813: only groups with complexity_score > 0 count
        qualitySum == SumSeq([i \in 1..n |->
                         IF score(i).complexity_score > 0
                         THEN score(i).code_quality_score + score(i).maintainability_score
                                  + score(i).best_practices_adherence
                         ELSE 0])
        complexitySum == SumSeq([i \in 1..n |->
                            IF score(i).complexity_score > 0 THEN score(i).complexity_score ELSE 0])
        averageQuality == Quotient(qualitySum, n * 3)
        averageComplexity == Quotient(complexitySum, n)
    IN IF \E i \in 1..n : scoredChunkGroups[i].usageIsNull
       THEN [threw |-> TRUE, file |-> <<>>]
       ELSE [threw |-> FALSE,
             file |-> <<[impactScore |-> Times(averageQuality, averageComplexity),
                         \* the two reduces of 835-836, over all groups
                         averageComplexity |->
                             Quotient(SumSeq([i \in 1..n |-> score(i).complexity_score]), n),
                         averageQuality |->
                             Quotient(SumSeq([i \in 1..n |-> score(i).code_quality_score]), n),
                         retries |-> 0,
                         hadError |-> FALSE,
                         scoredChunkGroups |-> scoredChunkGroups]>>]

\* One AI call of the loop returns; after the last one the file is built.
ScoreGroupReturn(answer) ==
    /\ fPc = "scoring"
    /\ LET groups == Append(fGroups, ScoredChunkGroup(answer))
       IN /\ fGroups' = groups
          /\ fLeft' = fLeft - 1
          /\ IF fLeft = 1
             THEN /\ fPc' = "done"
                  /\ fResult' = <<ScoreFileResult(groups)>>
             ELSE /\ fPc' = "scoring"
                  /\ fResult' = fResult
    /\ UNCHANGED <<storeVars, batchVars, packVars, contentVars, chunkVars, utilVars>>

\* scoreFile is entered with a file of 0..MaxGroups groups; with no group the
\* loop is not entered.
ScoreFileInit ==
    /\ StoreInit
    /\ disk = EmptyDisk
    /\ nodeEnv = "production"
    /\ BatchIdle
    /\ PackIdle
    /\ ContentIdle
    /\ ChunkIdle
    /\ UtilIdle
    /\ fLeft \in 0..MaxGroups
    /\ fGroups = <<>>
    /\ fPc = IF fLeft = 0 THEN "done" ELSE "scoring"
    /\ fResult = IF fLeft = 0 THEN <<ScoreFileResult(<<>>)>> ELSE <<>>

ScoreFileNext ==
    \E answer \in GroupAnswers : ScoreGroupReturn(answer)

SpecScoreFile == ScoreFileInit /\ [][ScoreFileNext]_vars

-----------------------------------------------------------------------------
(* Part VI: UniversalChunker.chunkFileWithGrouping (chunker.ts:18-230,      *)
(* 328-365) and BaseStrategy.fallbackSplitter (solidity.strategy.ts:        *)
(* 157-187).  A text is a sequence of items, each with its token count; a   *)
(* line of code is the item [src "code", piece, line], so that texts can be *)
(* compared; estimateTokens adds up the items of a text.  A source file is  *)
(* the token count of its context header and the sequence of its pieces: a  *)
(* piece is a top-level node of the parse tree, or text that belongs to no  *)
(* top-level node, given by the token counts of its lines and by the lines  *)
(* that are its sub-nodes.                                                  *)

MaxPieces == 3         \* pieces of the source file

\* config.ts:20-27
CHUNKER_CONFIG == [maxTokensPerChunk |-> 800, maxTokensPerGroup |-> 2500]

HeaderTokens == {20, 120}      \* estimateTokens(contextHeader)
SeparatorTokens == 20          \* '\n\n// --- Next chunk ---\n\n' and '// Lines a-b (type)\n'
EndOfSubChunksTokens == 8      \* '\n// --- End of sub-chunks ---\n'
ShellNoteTokens == 10          \* '// The following chunks are parts of this parent:' and the marker line

Repeat(n, x) == [i \in 1..n |-> x]

\* Text outside every top-level node (a comment, an import).
Gap == [top |-> FALSE, skip |-> FALSE, lines |-> <<10>>, subs |-> <<>>]
\* A top-level node that fits a chunk.
Small == [top |-> TRUE, skip |-> FALSE, lines |-> <<350, 350>>, subs |-> <<>>]
\* A top-level node for which shouldSkipChunk gives a reason.
Skipped == [top |-> TRUE, skip |-> TRUE, lines |-> <<40>>, subs |-> <<>>]
\* A top-level node of 4000 tokens without sub-nodes, in 10 lines.
Blob == [top |-> TRUE, skip |-> FALSE, lines |-> Repeat(10, 400), subs |-> <<>>]
\* The same in one line.
Minified == [top |-> TRUE, skip |-> FALSE, lines |-> <<4000>>, subs |-> <<>>]
\* A contract with six functions of 400 tokens.
Contract == [top |-> TRUE, skip |-> FALSE, lines |-> <<50>> \o Repeat(6, 400) \o <<50>>,
             subs |-> <<2, 3, 4, 5, 6, 7>>]
\* A contract whose one function is larger than a chunk.
Giant == [top |-> TRUE, skip |-> FALSE, lines |-> <<50, 900, 50>>, subs |-> <<2>>]

\* File-level declarations outside every top-level node, 2600 tokens.
Preamble == [top |-> FALSE, skip |-> FALSE, lines |-> <<1300, 1300>>, subs |-> <<>>]

PieceKinds == {Gap, Small, Skipped, Blob, Minified, Contract, Giant, Preamble}

SourceFiles ==
    {[header |-> h, pieces |-> ps] : h \in HeaderTokens, ps \in SeqsUpTo(PieceKinds, MaxPieces)}

CodeLine(i, l, t) == [src |-> "code", piece |-> i, line |-> l, tokens |-> t]

\* The text of lines from..to of piece i.
LinesText(i, lines, from, to) ==
    [k \in 1..(to - from + 1) |-> CodeLine(i, from + k - 1, lines[from + k - 1])]

NodeText(i, piece) == LinesText(i, piece.lines, 1, Len(piece.lines))

\* code: the whole file.
RECURSIVE CodeFrom(_, _)
CodeFrom(pieces, i) ==
    IF i > Len(pieces) THEN <<>> ELSE NodeText(i, pieces[i]) \o CodeFrom(pieces, i + 1)

OriginalCode(file) == CodeFrom(file.pieces, 1)

EstimateTokens(text) == SumSeq([k \in 1..Len(text) |-> text[k].tokens])

ContextHeader(file) == <<[src |-> "header", piece |-> 0, line |-> 0, tokens |-> file.header]>>

Separator == [src |-> "separator", piece |-> 0, line |-> 0, tokens |-> SeparatorTokens]

EndOfSubChunks == [src |-> "endsub", piece |-> 0, line |-> 0, tokens |-> EndOfSubChunksTokens]

\* node.startPosition.row of piece i: the lines of the file before it.
RECURSIVE StartRow(_, _)
StartRow(pieces, i) == IF i <= 1 THEN 0 ELSE StartRow(pieces, i - 1) + Len(pieces[i - 1].lines)

\* type is <<node.type>>, or <<node.type + "_part_", n>> for the n-th part of
\* a split node.
ChunkInfo(text, startLine, endLine, type, isOversized, skip, shellContext) ==
    [originalText |-> text, codeOnlyTokens |-> EstimateTokens(text),
     startLine |-> startLine, endLine |-> endLine, type |-> type,
     isOversized |-> isOversized, skipReason |-> skip, shellContext |-> shellContext]

\* fallbackSplitter: the lines are collected until the collected text has
\* maxTokens tokens or more, or the last line is reached; no part is marked
\* oversized.
RECURSIVE SplitLines(_, _, _, _, _, _, _)
SplitLines(i, row, lines, l, from, part, maxTokens) ==
    IF l > Len(lines) THEN <<>>
    ELSE LET currentChunkText == LinesText(i, lines, from, l)
         IN IF EstimateTokens(currentChunkText) >= maxTokens \/ l = Len(lines)
            THEN <<ChunkInfo(currentChunkText, row + from, row + l, <<"node_part_", part>>,
                             FALSE, FALSE, <<>>)>>
                     \o SplitLines(i, row, lines, l + 1, l + 1, part + 1, maxTokens)
            ELSE SplitLines(i, row, lines, l + 1, from, part, maxTokens)

FallbackSplitter(i, row, piece, maxTokens) ==
    SplitLines(i, row, piece.lines, 1, 1, 1, maxTokens)

\* createShellContext: the parent's text around its sub-nodes.
CreateShellContext(i, piece) ==
    LET inSub(l) == \E k \in 1..Len(piece.subs) : piece.subs[k] = l
        shell == [l \in 1..Len(piece.lines) |-> IF inSub(l) THEN 0 ELSE piece.lines[l]]
    IN [src |-> "shell", piece |-> i, line |-> 0, tokens |-> SumSeq(shell) + ShellNoteTokens]

TrySubChunk(i, row, piece) ==
    IF piece.subs # <<>>
    THEN [k \in 1..Len(piece.subs) |->
            ChunkInfo(LinesText(i, piece.lines, piece.subs[k], piece.subs[k]),
                      row + piece.subs[k], row + piece.subs[k], <<"sub_node">>,
                      piece.lines[piece.subs[k]] > CHUNKER_CONFIG.maxTokensPerChunk,
                      FALSE, <<CreateShellContext(i, piece)>>)]
    ELSE FallbackSplitter(i, row, piece, CHUNKER_CONFIG.maxTokensPerChunk)

\* Steps 3 to 5 of chunkFileWithGrouping without the sort: the chunks of the
\* top-level nodes, with the skip reasons set.
RECURSIVE ChunksFrom(_, _)
ChunksFrom(pieces, i) ==
    IF i > Len(pieces) THEN <<>>
    ELSE LET piece == pieces[i]
             row == StartRow(pieces, i)
             chunks == IF ~piece.top THEN <<>>
                       ELSE IF EstimateTokens(NodeText(i, piece)) > CHUNKER_CONFIG.maxTokensPerChunk
                       THEN TrySubChunk(i, row, piece)
                       ELSE <<ChunkInfo(NodeText(i, piece), row + 1, row + Len(piece.lines),
                                        <<"node">>, FALSE, piece.skip, <<>>)>>
         IN chunks \o ChunksFrom(pieces, i + 1)

\* The chunks in the reverse of the order they were pushed in.
RECURSIVE SortReversed(_)
SortReversed(chunks) ==
    IF chunks = <<>> THEN <<>> ELSE Append(SortReversed(Tail(chunks)), Head(chunks))

\* allChunks.sort((a, b) => a.startLine - b.startLine): a stable sort.
RECURSIVE InsertByStartLine(_, _)
InsertByStartLine(sorted, chunk) ==
    IF sorted = <<>> THEN <<chunk>>
    ELSE IF sorted[Len(sorted)].startLine <= chunk.startLine THEN Append(sorted, chunk)
    ELSE Append(InsertByStartLine(SubSeq(sorted, 1, Len(sorted) - 1), chunk), sorted[Len(sorted)])

RECURSIVE SortByStartLine(_)
SortByStartLine(chunks) ==
    IF chunks = <<>> THEN <<>>
    ELSE InsertByStartLine(SortByStartLine(SubSeq(chunks, 1, Len(chunks) - 1)), chunks[Len(chunks)])

\* finalizeGroup: the combined text of a group.
RECURSIVE CombineFrom(_, _, _)
CombineFrom(chunksInGroup, combinedText, lastShellContext) ==
    IF chunksInGroup = <<>> THEN combinedText
    ELSE LET chunk == Head(chunksInGroup)
             opens == chunk.shellContext # <<>> /\ chunk.shellContext # lastShellContext
             closes == ~opens /\ chunk.shellContext = <<>> /\ lastShellContext # <<>>
             text == IF opens THEN combinedText \o chunk.shellContext
                     ELSE IF closes THEN Append(combinedText, EndOfSubChunks)
                     ELSE combinedText
             last == IF opens THEN chunk.shellContext
                     ELSE IF closes THEN <<>>
                     ELSE lastShellContext
         IN CombineFrom(Tail(chunksInGroup), text \o <<Separator>> \o chunk.originalText, last)

FinalizeGroup(chunksInGroup, contextHeader, groupId) ==
    LET combinedText == CombineFrom(chunksInGroup, contextHeader, <<>>)
    IN [combinedText |-> combinedText, totalTokens |-> EstimateTokens(combinedText),
        chunks |-> chunksInGroup, groupId |-> groupId]

\* The loop of groupChunks and the push that follows it.
RECURSIVE GroupLoop(_, _, _, _, _)
GroupLoop(activeChunks, groups, currentGroup, currentTokens, contextHeader) ==
    LET maxGroupTokens == CHUNKER_CONFIG.maxTokensPerGroup - EstimateTokens(contextHeader)
    IN IF activeChunks = <<>>
       THEN IF currentGroup # <<>>
            THEN Append(groups, FinalizeGroup(currentGroup, contextHeader, Len(groups) + 1))
            ELSE groups
       ELSE LET chunk == Head(activeChunks)
            IN IF currentTokens + chunk.codeOnlyTokens > maxGroupTokens /\ currentGroup # <<>>
               THEN GroupLoop(Tail(activeChunks),
                              Append(groups, FinalizeGroup(currentGroup, contextHeader, Len(groups) + 1)),
                              <<chunk>>, chunk.codeOnlyTokens, contextHeader)
               ELSE GroupLoop(Tail(activeChunks), groups, Append(currentGroup, chunk),
                              currentTokens + chunk.codeOnlyTokens, contextHeader)

GroupChunks(activeChunks, contextHeader) == GroupLoop(activeChunks, <<>>, <<>>, 0, contextHeader)

\* Array.prototype.map(c => c.originalText).join('\n')
RECURSIVE JoinTexts(_)
JoinTexts(chunks) ==
    IF chunks = <<>> THEN <<>> ELSE Head(chunks).originalText \o JoinTexts(Tail(chunks))

DetermineStrategyAndGroup(activeChunks, oversizedChunks, totalFileTokens, contextHeader) ==
    LET fullFileCost == totalFileTokens + EstimateTokens(contextHeader)
        code == JoinTexts(activeChunks)
        finalGroups == GroupChunks(activeChunks, contextHeader)
    IN IF fullFileCost <= CHUNKER_CONFIG.maxTokensPerGroup /\ oversizedChunks = <<>>
       THEN [sendStrategy |-> "full_file",
             finalGroups |-> <<[combinedText |-> contextHeader \o code,
                                totalTokens |-> fullFileCost,
                                chunks |-> <<[originalText |-> code,
                                              codeOnlyTokens |-> totalFileTokens,
                                              startLine |-> 1,
                                              endLine |-> IF code = <<>> THEN 1 ELSE Len(code),
                                              type |-> <<"full_file">>,
                                              isOversized |-> FALSE, skipReason |-> FALSE,
                                              shellContext |-> <<>>]>>,
                                groupId |-> 1]>>]
       ELSE IF activeChunks = <<>> /\ oversizedChunks # <<>>
       THEN [sendStrategy |-> "unprocessed", finalGroups |-> <<>>]
       ELSE [sendStrategy |-> IF finalGroups = <<>> /\ oversizedChunks # <<>> THEN "unprocessed"
                              ELSE IF Len(finalGroups) <= 1 THEN "single_group"
                              ELSE "multiple_groups",
             finalGroups |-> finalGroups]

ChunkFileWithGrouping(file) ==
    LET allChunks == SortByStartLine(ChunksFrom(file.pieces, 1))
        isOversized(c) == c.isOversized
        isActive(c) == ~c.isOversized /\ ~c.skipReason
        decided == DetermineStrategyAndGroup(SelectSeq(allChunks, isActive),
                                             SelectSeq(allChunks, isOversized),
                                             EstimateTokens(OriginalCode(file)),
                                             ContextHeader(file))
    IN [totalFileTokens |-> EstimateTokens(OriginalCode(file)),
        chunks |-> allChunks,
        groupedChunks |-> decided.finalGroups,
        sendStrategy |-> decided.sendStrategy]

ChunkFile ==
    /\ cPc = "input"
    /\ cPc' = "done"
    /\ cOut' = <<ChunkFileWithGrouping(cFile[1])>>
    /\ UNCHANGED <<cFile, storeVars, batchVars, packVars, contentVars, scoreVars, utilVars>>

ChunkInit ==
    /\ StoreInit
    /\ disk = EmptyDisk
    /\ nodeEnv = "production"
    /\ BatchIdle
    /\ PackIdle
    /\ ContentIdle
    /\ ScoreIdle
    /\ UtilIdle
    /\ cPc = "input"
    /\ cFile \in {<<file>> : file \in SourceFiles}
    /\ cOut = <<>>

ChunkNext == ChunkFile

SpecChunk == ChunkInit /\ [][ChunkNext]_vars

-----------------------------------------------------------------------------
(* Part VII: getRepoMetadata (repo.metadata.ts:14-43) and cloneRepo         *)
(* (utils.ts:60-68) with several callers in flight.  git clone is a child   *)
(* process: it creates the repository's directory when it starts and fills  *)
(* it before it exits; it refuses a directory that exists already.  An      *)
(* action is one synchronous stretch of a caller, or one step of git.       *)

MaxCallers == 3        \* calls of getRepoMetadata

Callers == 1..MaxCallers

RepoUrls == {"u1", "u2"}       \* urls with different basenames

\* The RepoMetadata object built by a call (repo.metadata.ts:35-39); allFiles
\* stands for the list walkFileTree returned, by for the object's identity.
Metadata(repoUrl, allFiles, by) == [repoUrl |-> repoUrl, allFiles |-> allFiles, by |-> by]

\* walkFileTree(localPath): the files that are in the directory now.
WalkFileTree(dir) == IF dir = "complete" THEN "all" ELSE "partial"

\* getRepoMetadata up to its first await (repo.metadata.ts:18-31) with
\* cloneRepo up to its await (utils.ts:61-63).
GetRepoMetadata(c, repoUrl) ==
    /\ mPc[c] = "idle"
    /\ mUrl' = [mUrl EXCEPT ![c] = repoUrl]
    /\ IF metadataCache[repoUrl] # <<>>
       THEN /\ mRet' = [mRet EXCEPT ![c] = metadataCache[repoUrl]]
            /\ mPc' = [mPc EXCEPT ![c] = "returned"]
            /\ cloneCalls' = cloneCalls
       ELSE IF repoDir[repoUrl] = "absent"
       THEN /\ cloneCalls' = [cloneCalls EXCEPT ![repoUrl] = @ + 1]
            /\ mPc' = [mPc EXCEPT ![c] = "awaitGit"]
            /\ mRet' = mRet
       ELSE /\ mPc' = [mPc EXCEPT ![c] = "awaitCloneRepo"]
            /\ UNCHANGED <<mRet, cloneCalls>>
    /\ UNCHANGED <<metadataCache, repoDir>>
    /\ UNCHANGED <<storeVars, batchVars, packVars, contentVars, scoreVars, chunkVars, jsonVars, dossierVars>>

\* git clone starts: it creates the directory, or fails on an existing one,
\* and then git.clone rejects (utils.ts:63).
GitStart(c) ==
    /\ mPc[c] = "awaitGit"
    /\ IF repoDir[mUrl[c]] = "absent"
       THEN /\ repoDir' = [repoDir EXCEPT ![mUrl[c]] = "cloning"]
            /\ mPc' = [mPc EXCEPT ![c] = "cloning"]
       ELSE /\ repoDir' = repoDir
            /\ mPc' = [mPc EXCEPT ![c] = "rejected"]
    /\ UNCHANGED <<mUrl, mRet, metadataCache, cloneCalls>>
    /\ UNCHANGED <<storeVars, batchVars, packVars, contentVars, scoreVars, chunkVars, jsonVars, dossierVars>>

\* git clone exits: with the repository in place, or with an error.
GitExit(c, ok) ==
    /\ mPc[c] = "cloning"
    /\ IF ok
       THEN /\ repoDir' = [repoDir EXCEPT ![mUrl[c]] = "complete"]
            /\ mPc' = [mPc EXCEPT ![c] = "awaitCloneRepo"]
       ELSE /\ repoDir' = repoDir
            /\ mPc' = [mPc EXCEPT ![c] = "rejected"]
    /\ UNCHANGED <<mUrl, mRet, metadataCache, cloneCalls>>
    /\ UNCHANGED <<storeVars, batchVars, packVars, contentVars, scoreVars, chunkVars, jsonVars, dossierVars>>

\* getRepoMetadata after await cloneRepo (repo.metadata.ts:33-42).
AfterCloneRepo(c) ==
    /\ mPc[c] = "awaitCloneRepo"
    /\ LET metadata == Metadata(mUrl[c], WalkFileTree(repoDir[mUrl[c]]), c)
       IN /\ metadataCache' = [metadataCache EXCEPT ![mUrl[c]] = <<metadata>>]
          /\ mRet' = [mRet EXCEPT ![c] = <<metadata>>]
    /\ mPc' = [mPc EXCEPT ![c] = "returned"]
    /\ UNCHANGED <<mUrl, repoDir, cloneCalls>>
    /\ UNCHANGED <<storeVars, batchVars, packVars, contentVars, scoreVars, chunkVars, jsonVars, dossierVars>>

MetaInit ==
    /\ StoreInit
    /\ disk = EmptyDisk
    /\ nodeEnv = "production"
    /\ BatchIdle
    /\ PackIdle
    /\ ContentIdle
    /\ ScoreIdle
    /\ ChunkIdle
    /\ mPc = [c \in Callers |-> "idle"]
    /\ mUrl = [c \in Callers |-> "u1"]
    /\ mRet = [c \in Callers |-> <<>>]
    /\ metadataCache = [u \in RepoUrls |-> <<>>]
    /\ repoDir = [u \in RepoUrls |-> "absent"]
    /\ cloneCalls = [u \in RepoUrls |-> 0]
    /\ JsonIdle
    /\ DossierIdle

MetaNext ==
    \/ \E c \in Callers, repoUrl \in RepoUrls : GetRepoMetadata(c, repoUrl)
    \/ \E c \in Callers : GitStart(c)
    \/ \E c \in Callers, ok \in BOOLEAN : GitExit(c, ok)
    \/ \E c \in Callers : AfterCloneRepo(c)

SpecMeta == MetaInit /\ [][MetaNext]_vars

-----------------------------------------------------------------------------
(* Part VIII: safeJsonChatCompletion (utils.ts:17-53).  jCalls is a history *)
(* variable: the outcomes of the client calls that have returned.           *)

MaxRetries == 3        \* largest maxRetries a caller passes

\* res.content of a call that resolves: absent (<<>>), or a text.
Contents == {<<>>, <<"{\"score\":7}">>, <<"{}">>, <<"null">>, <<"Sure! {">>, <<"">>}

Usages == {5, 7}               \* res.usage

\* client.chatCompletion rejects, or resolves with {content, usage}.
ChatOutcomes ==
    {[threw |-> TRUE, content |-> <<>>, usage |-> 0]}
    \cup {[threw |-> FALSE, content |-> c, usage |-> u] : c \in Contents, u \in Usages}

\* JSON.parse(raw): the value of a JSON text; any other text throws.
JsonParse(raw) ==
    CASE raw = "{\"score\":7}" -> [threw |-> FALSE, value |-> "object with score 7"]
      [] raw = "{}" -> [threw |-> FALSE, value |-> "empty object"]
      [] raw = "null" -> [threw |-> FALSE, value |-> "null"]
      [] OTHER -> [threw |-> TRUE, value |-> ""]

\* res.content ?? '{}'
RawOf(content) == IF content = <<>> THEN "{}" ELSE content[1]

\* The function up to its first await: the loop is entered when 1 <= maxRetries.
SafeJsonEnter ==
    /\ jPc = "entry"
    /\ jAttempt' = 1
    /\ IF 1 <= jMaxRetries
       THEN /\ jPc' = "awaitChat"
            /\ jResult' = jResult
       ELSE /\ jPc' = "returned"
            /\ jResult' = <<[isNull |-> TRUE, obj |-> "", usage |-> 0]>>
    /\ UNCHANGED <<jMaxRetries, jCalls>>
    /\ UNCHANGED <<storeVars, batchVars, packVars, contentVars, scoreVars, chunkVars, metaVars, dossierVars>>

\* The awaited call settles (utils.ts:32-47): the parsed content is
\* returned, or the catch block starts the backoff timer.
ChatReturn(res) ==
    /\ jPc = "awaitChat"
    /\ jCalls' = Append(jCalls, res)
    /\ IF ~res.threw /\ ~JsonParse(RawOf(res.content)).threw
       THEN /\ jPc' = "returned"
            /\ jResult' = <<[isNull |-> FALSE, obj |-> JsonParse(RawOf(res.content)).value,
                             usage |-> res.usage]>>
       ELSE /\ jPc' = "awaitBackoff"
            /\ jResult' = jResult
    /\ UNCHANGED <<jMaxRetries, jAttempt>>
    /\ UNCHANGED <<storeVars, batchVars, packVars, contentVars, scoreVars, chunkVars, metaVars, dossierVars>>

\* BackoffElapsed with the loop test off by one (attempt <= maxRetries + 1).
BackoffElapsedOneMore ==
    /\ jPc = "awaitBackoff"
    /\ jAttempt' = jAttempt + 1
    /\ IF jAttempt + 1 <= jMaxRetries + 1
       THEN /\ jPc' = "awaitChat"
            /\ jResult' = jResult
       ELSE /\ jPc' = "returned"
            /\ jResult' = <<[isNull |-> TRUE, obj |-> "", usage |-> 0]>>
    /\ UNCHANGED <<jMaxRetries, jCalls>>
    /\ UNCHANGED <<storeVars, batchVars, packVars, contentVars, scoreVars, chunkVars, metaVars, dossierVars>>

\* The timer of 300 * attempt ms fires: attempt++ and the loop test
\* (utils.ts:30), then the next call or return null (utils.ts:51-52).
BackoffElapsed ==
    /\ jPc = "awaitBackoff"
    /\ jAttempt' = jAttempt + 1
    /\ IF jAttempt + 1 <= jMaxRetries
       THEN /\ jPc' = "awaitChat"
            /\ jResult' = jResult
       ELSE /\ jPc' = "returned"
            /\ jResult' = <<[isNull |-> TRUE, obj |-> "", usage |-> 0]>>
    /\ UNCHANGED <<jMaxRetries, jCalls>>
    /\ UNCHANGED <<storeVars, batchVars, packVars, contentVars, scoreVars, chunkVars, metaVars, dossierVars>>

JsonInit ==
    /\ StoreInit
    /\ disk = EmptyDisk
    /\ nodeEnv = "production"
    /\ BatchIdle
    /\ PackIdle
    /\ ContentIdle
    /\ ScoreIdle
    /\ ChunkIdle
    /\ MetaIdle
    /\ jPc = "entry"
    /\ jMaxRetries \in 0..MaxRetries
    /\ jAttempt = 0
    /\ jCalls = <<>>
    /\ jResult = <<>>
    /\ DossierIdle

JsonNext ==
    \/ SafeJsonEnter
    \/ \E res \in ChatOutcomes : ChatReturn(res)
    \/ BackoffElapsed

SpecJson == JsonInit /\ [][JsonNext]_vars

-----------------------------------------------------------------------------
(* Part IX: _buildDossierWithGlobalTopImpact (scorer.ts 1264-1315) and      *)
(* _buildDossierWithTopImpactPerFile (scorer.ts 1322-1378), applied to the  *)
(* scoredFiles of a scorecard read back from project-scorecard.json         *)
(* (main.ts 642).  Impacts are kept in thirds: qualitySum * complexity.     *)

MaxScored == 3         \* scored files on the scorecard

DossierPaths == <<"a", "b", "c", "d", "e">>

\* A scored chunk group: its AI score and group.totalTokens.
ScoredGroup(qualitySum, complexity, totalTokens) ==
    [score |-> [qualitySum |-> qualitySum, complexity_score |-> complexity],
     totalTokens |-> totalTokens]

\* The scoredChunkGroups a file can carry; scoreFile and the batch scorer
\* push one per group of groupedChunks, so <<>> is a file without groups.
ScoredGroupLists ==
    {<<>>,
     <<ScoredGroup(24, 5, 7000)>>,
     <<ScoredGroup(15, 2, 9000)>>,
     <<ScoredGroup(24, 5, 17000)>>,
     <<ScoredGroup(0, 0, 4000)>>,
     <<ScoredGroup(15, 2, 4000), ScoredGroup(24, 5, 5000)>>,
     <<ScoredGroup(24, 5, 9000), ScoredGroup(24, 5, 7000)>>}

FileImpacts == {0, 30, 120}

\* The scored files as JSON.parse returns them: the impactScore of a file
\* without groups was NaN (0 / 0, scorer.ts 815-818) and is read back as
\* null, which the comparator's subtraction takes as 0.
ScoredFileShapes ==
    {[impactScore |-> 0, impactIsNull |-> TRUE, scoredChunkGroups |-> <<>>]}
    \cup {[impactScore |-> i, impactIsNull |-> FALSE, scoredChunkGroups |-> g] :
             i \in FileImpacts, g \in ScoredGroupLists \ {<<>>}}

ScoredFileLists == UNION {[1..n -> ScoredFileShapes] : n \in 0..MaxScored}

DossierStrategies == {"top_impact_per_file", "global_top_impact"}

\* (code_quality + maintainability + best_practices) / 3 * complexity, in thirds.
GroupImpact(group) == group.score.qualitySum * group.score.complexity_score

\* file.scoredChunkGroups.reduce((sum, g) => sum + g.totalTokens, 0)
RECURSIVE FileTokenCost(_)
FileTokenCost(groups) ==
    IF groups = <<>> THEN 0 ELSE Head(groups).totalTokens + FileTokenCost(Tail(groups))

\* The reduce of scorer.ts 1331-1336: the first group of the largest impact.
RECURSIVE TopGroupFrom(_, _, _)
TopGroupFrom(groups, i, max) ==
    IF i > Len(groups) THEN max
    ELSE TopGroupFrom(groups, i + 1,
                      IF GroupImpact(groups[i]) > GroupImpact(groups[max]) THEN i ELSE max)

TopGroup(groups) == TopGroupFrom(groups, 2, 1)

\* The candidates of the global strategy: every file, at its whole cost.
FileCandidates(scoredFiles) ==
    [i \in DOMAIN scoredFiles |->
        [filePath |-> <<DossierPaths[i]>>,
         impactScore |-> scoredFiles[i].impactScore,
         tokens |-> FileTokenCost(scoredFiles[i].scoredChunkGroups),
         groupIds |-> [g \in DOMAIN scoredFiles[i].scoredChunkGroups |-> g],
         impactIsNull |-> scoredFiles[i].impactIsNull]]

\* topChunkPerFile (scorer.ts 1326-1350): files without groups are passed over.
RECURSIVE TopChunkPerFile(_, _)
TopChunkPerFile(scoredFiles, i) ==
    IF i > Len(scoredFiles) THEN <<>>
    ELSE LET groups == scoredFiles[i].scoredChunkGroups
         IN (IF groups = <<>> THEN <<>>
             ELSE <<[filePath |-> <<DossierPaths[i]>>,
                     impactScore |-> GroupImpact(groups[TopGroup(groups)]),
                     tokens |-> groups[TopGroup(groups)].totalTokens,
                     groupIds |-> <<TopGroup(groups)>>,
                     impactIsNull |-> FALSE]>>)
            \o TopChunkPerFile(scoredFiles, i + 1)

\* The dossier text as its pieces: one per group appended to dossierCode.
RECURSIVE DossierEntries(_, _)
DossierEntries(sorted, sent) ==
    IF sorted = <<>> THEN <<>>
    ELSE (IF \E k \in DOMAIN sent : sent[k] = Head(sorted).filePath
          THEN [g \in DOMAIN Head(sorted).groupIds |->
                   [filePath |-> Head(sorted).filePath, groupId |-> Head(sorted).groupIds[g]]]
          ELSE <<>>)
         \o DossierEntries(Tail(sorted), sent)

\* _buildDossierWithGlobalTopImpact.  An admitted file whose impactScore is
\* null makes impactScore.toFixed throw (scorer.ts 1287).
BuildDossierWithGlobalTopImpact ==
    /\ dPc = "start"
    /\ dStrategy = "global_top_impact"
    /\ LET sortedFiles == SortByImpactDesc(FileCandidates(dScoredFiles))
           sent == AdmitGlobal(sortedFiles, 0)
           threw == \E i \in DOMAIN sortedFiles :
                       /\ sortedFiles[i].impactIsNull
                       /\ \E k \in DOMAIN sent : sent[k] = sortedFiles[i].filePath
       IN /\ dCandidates' = sortedFiles
          /\ IF threw
             THEN /\ dPc' = "threw"
                  /\ UNCHANGED <<dSent, dEntries>>
             ELSE /\ dPc' = "built"
                  /\ dSent' = sent
                  /\ dEntries' = DossierEntries(sortedFiles, sent)
    /\ UNCHANGED <<dStrategy, dScoredFiles>>
    /\ UNCHANGED <<storeVars, batchVars, packVars, contentVars, scoreVars, chunkVars, metaVars, jsonVars>>

\* _buildDossierWithTopImpactPerFile.
BuildDossierWithTopImpactPerFile ==
    /\ dPc = "start"
    /\ dStrategy = "top_impact_per_file"
    /\ LET topChunkPerFile == SortByImpactDesc(TopChunkPerFile(dScoredFiles, 1))
           sent == AdmitGlobal(topChunkPerFile, 0)
       IN /\ dCandidates' = topChunkPerFile
          /\ dSent' = sent
          /\ dEntries' = DossierEntries(topChunkPerFile, sent)
          /\ dPc' = "built"
    /\ UNCHANGED <<dStrategy, dScoredFiles>>
    /\ UNCHANGED <<storeVars, batchVars, packVars, contentVars, scoreVars, chunkVars, metaVars, jsonVars>>

DossierInit ==
    /\ StoreInit
    /\ disk = EmptyDisk
    /\ nodeEnv = "production"
    /\ BatchIdle
    /\ PackIdle
    /\ ContentIdle
    /\ ScoreIdle
    /\ ChunkIdle
    /\ MetaIdle
    /\ JsonIdle
    /\ dPc = "start"
    /\ dStrategy \in DossierStrategies
    /\ dScoredFiles \in ScoredFileLists
    /\ dCandidates = <<>>
    /\ dSent = <<>>
    /\ dEntries = <<>>

DossierNext ==
    \/ BuildDossierWithGlobalTopImpact
    \/ BuildDossierWithTopImpactPerFile

SpecDossier == DossierInit /\ [][DossierNext]_vars

-----------------------------------------------------------------------------
(* Properties of the run store and the orchestrator, checked under Spec     *)

StoredStatus(k) == objs[analysisStore[k]].status
StoredLog(k) == objs[analysisStore[k]].logHistory

IsPrefix(s, t) == Len(s) <= Len(t) /\ SubSeq(t, 1, Len(s)) = s

\* A status move the state machine allows: forward along
\* preparing -> selecting_files -> chunking_and_scoring -> final_review ->
\* complete (a status may be written again), or from a non-terminal status
\* to error.
AllowedMove(s, t) ==
    \/ t = "error" /\ s \notin Terminal
    \/ s # "error" /\ t # "error" /\ Rank(s) <= Rank(t)

\* C1: the statuses written to a RunState follow preparing -> selecting_files
\* -> chunking_and_scoring -> final_review -> complete; a status never moves
\* back to an earlier stage, and the only other move is from a non-terminal
\* status to error.
C1_StatusNeverMovesBack ==
    \A p \in Posts :
       \A i \in 1..(Len(objs[p].statusTrace) - 1) :
          AllowedMove(objs[p].statusTrace[i], objs[p].statusTrace[i + 1])

\* C2: in every reachable state of the run store, a run whose status is
\* complete has a report and exposes no error, and a run whose status is
\* error has an error message and exposes no report.
C2_CompleteHasReportErrorHasMessage ==
    \A param \in UrlParams :
       LET r == StatusResponse(param)
       IN r.code = 200 =>
             /\ r.status = "complete" => (r.report # <<>> /\ r.error = Null)
             /\ r.status = "error" => (r.error \notin {Null, Undefined} /\ r.report = <<>>)

\* C3: once the status stored under a run id is complete or error, no later
\* operation changes that status or appends to that run's log.
C3_TerminalStatusIsFinal ==
    [][\A k \in StoreKeys :
          (analysisStore[k] # NoObj /\ StoredStatus(k) \in Terminal)
          => /\ analysisStore'[k] # NoObj
             /\ StoredStatus(k)' = StoredStatus(k)
             /\ StoredLog(k)' = StoredLog(k)]_vars

\* C4: the log_history of a run is append-only with ids 1, 2, 3, ...: the
\* k-th entry has id k, every status update made for the run appends exactly
\* one entry, and no earlier entry is changed, removed or re-ordered.
C4_LogIsAppendOnly ==
    [][\A k \in StoreKeys :
          analysisStore[k] # NoObj
          => /\ analysisStore'[k] # NoObj
             /\ IsPrefix(StoredLog(k), StoredLog(k)')
             /\ Len(StoredLog(k)') = Len(StoredLog(k)) + (updateCalls'[k] - updateCalls[k])
             /\ \A i \in 1..Len(StoredLog(k)') : StoredLog(k)'[i].id = i]_vars

\* C5: when the final-review call yields no usable JSON object (every attempt
\* failed, or the parsed value is null) the run does not abort: the
\* multiplier is 1.0, final_project_score equals preliminary_project_score
\* and the run is complete with a report.
C5_FailedReviewDefaultsToOne ==
    \A p \in Posts :
       local[p].answer \in {"null", "parsedNull"}
       => /\ pc[p] = "halted"
          /\ objs[p].finalScorecard # <<>>
          /\ objs[p].finalScorecard[1].multiplier = 100
          /\ objs[p].finalScorecard[1].finalProjectScore
                = 100 * objs[p].finalScorecard[1].preliminaryProjectScore
          /\ StoredStatus(RunKey(p)) = "complete"

\* C6: for every run that completes through the final review the multiplier
\* applied lies in [0.8, 1.25], so that 0.8 * preliminary <= final <= 1.25 *
\* preliminary, whatever the AI returned as final_score_multiplier.
C6_MultiplierInRange ==
    \A p \in Posts :
       (objs[p].finalScorecard # <<>> /\ objs[p].finalScorecard[1].reviewed)
       => LET card == objs[p].finalScorecard[1]
          IN /\ 80 <= card.multiplier /\ card.multiplier <= 125
             /\ 80 * card.preliminaryProjectScore <= card.finalProjectScore
             /\ card.finalProjectScore <= 125 * card.preliminaryProjectScore

\* A request or worker that is suspended at an await and will be resumed.
Live(p) ==
    pc[p] \in {"awaitClone", "awaitMetadata", "awaitRepo", "awaitSelection",
               "awaitPrompt", "awaitScoring", "awaitFinal"}

\* C7: every started run eventually reaches complete or error.  Stated on
\* the states in which nothing is left to run for the run id: once no request
\* or worker for a stored run is suspended at an await, its status is
\* complete or error.
C7_NoRunIsLeftUnfinished ==
    \A k \in StoreKeys :
       (analysisStore[k] # NoObj /\ ~\E p \in Posts : Live(p) /\ RunKey(p) = k)
       => StoredStatus(k) \in Terminal

\* C8: after POST /analysis answers 202, GET /analysis/{runId}/status with
\* the run id of that answer answers 200, whether or not the request body
\* supplied runId.
C8_AcceptedRunIsPollable ==
    \A p \in Posts :
       resp[p].code = 202 => StatusResponse(TemplateStr(resp[p].runId)).code = 200

ScoredPaths(state) ==
    IF state.finalScorecard = <<>> THEN <<>>
    ELSE [i \in 1..Len(state.finalScorecard[1].scoredFiles) |->
             state.finalScorecard[1].scoredFiles[i].filePath]

\* C12: under any interleaving of score_file requests on a completed run,
\* each file path is at most once in the run's scored_files: a request
\* received on a completed run never adds a path that is already there, and a
\* request for a path that is already there is answered with the existing
\* entry, without an AI call.
C12_ScoredPathsAreUnique ==
    [][\A i \in ScoreReqs :
          /\ (sf[i].pc = "awaitScore" /\ sf[i].onComplete /\ sf'[i].pc # "awaitScore"
              /\ Distinct(ScoredPaths(objs[sf[i].obj])))
             => Distinct(ScoredPaths(objs'[sf[i].obj]))
          /\ (sf[i].pc = "idle" /\ sf'[i].pc = "awaitScore")
             => ~AlreadyScored(objs[sf'[i].obj], sf'[i].filePath)]_vars

\* C13: whenever score_file adds a ScoredFile to a run's in-memory scorecard,
\* the request answers 200 and the updated scorecard is written to the run's
\* scorecard file (the write is issued with the updated scorecard as its
\* data), for runs completed by the pipeline and from the cache.
C13_ScoreFilePersists ==
    [][\A i \in ScoreReqs :
          (/\ sf[i].pc = "awaitScore"
           /\ sf'[i].pc # "awaitScore"
           /\ Len(ScoredPaths(objs'[sf[i].obj])) > Len(ScoredPaths(objs[sf[i].obj])))
          => /\ sf'[i].code = 200
             /\ sf'[i].pc = "awaitOpen"
             /\ sf'[i].path # <<>>
             /\ sf'[i].path[1] = TemplateStr(objs[sf[i].obj].runId)
             /\ sf'[i].data = objs'[sf[i].obj].finalScorecard]_vars

\* C16: when a run starts and its final-reviews2 directory holds at least one
\* file, the run takes the most recently modified one as its report and goes
\* from preparing straight to complete: no other status is written and the
\* worker returns without reaching an AI call.
C16_CacheHitCompletes ==
    [][\A p \in Posts :
          (/\ pc[p] = "awaitMetadata"
           /\ pc'[p] # "awaitMetadata"
           /\ disk[TemplateStr(RunKey(p))].finals # <<>>)
          => /\ pc'[p] = "halted"
             /\ objs'[p].status = "complete"
             /\ objs'[p].statusTrace = <<"preparing", "preparing", "complete">>
             /\ objs'[p].finalScorecard # <<>>
             /\ objs'[p].finalScorecard =
                    disk[TemplateStr(RunKey(p))].finals[Len(disk[TemplateStr(RunKey(p))].finals)].content]_vars

\* No scored file fits the dossier budget (or there is none).
NoneFits(scoredFiles) ==
    \A i \in 1..Len(scoredFiles) : scoredFiles[i].tokens > DOSSIER_BUDGET

EmptyDossierMessage == "0 files sent for eval"

\* C17: when the final review is reached (scoring returned, the preliminary
\* scorecard was saved and read back) and no scored file can be admitted to
\* the dossier, the worker makes no final-review call: the empty-dossier
\* error is raised and the run stored under the run id gets status error and
\* that error's message.
C17_EmptyDossierIsAnError ==
    [][\A p \in Posts :
          LET id == RunKey(p)
              saved == disk'[TemplateStr(id)].prelim
          IN (/\ pc[p] = "awaitScoring"
              /\ pc'[p] # "awaitScoring"
              /\ updateCalls'[id] >= updateCalls[id] + 2
              /\ saved # <<>>
              /\ NoneFits(saved[1].scoredFiles))
             => /\ pc'[p] = "halted"
                /\ objs'[analysisStore[id]].status = "error"
                /\ objs'[analysisStore[id]].error = EmptyDossierMessage
                /\ objs'[analysisStore[id]].logHistory[Len(objs'[analysisStore[id]].logHistory)].message
                      = "Error: " \o EmptyDossierMessage]_vars

\* A run that ended with the empty-dossier error although a file was scored.
C17_Witness ==
    \E p \in Posts, k \in StoreKeys :
        /\ pc[p] = "halted"
        /\ analysisStore[k] # NoObj
        /\ objs[analysisStore[k]].status = "error"
        /\ objs[analysisStore[k]].error = EmptyDossierMessage
        /\ disk[TemplateStr(k)].prelim # <<>>
        /\ disk[TemplateStr(k)].prelim[1].scoredFiles # <<>>

-----------------------------------------------------------------------------
(* Properties of batch scoring, checked under SpecBatch                     *)

EntriesFor(scoredFiles, path) == {j \in 1..Len(scoredFiles) : scoredFiles[j].filePath = path}

ReviewedIn(scoredFiles, path) ==
    \E j \in EntriesFor(scoredFiles, path) : ~scoredFiles[j].hadError

ZeroScores(sfile) ==
    /\ sfile.score.complexity_score = 0
    /\ sfile.score.code_quality_score = 0
    /\ sfile.score.maintainability_score = 0
    /\ sfile.score.best_practices_adherence = 0

\* C9: whatever the AI answers on the first call and on the retry, batch
\* scoring returns exactly one ScoredFile per file of the batch.
C9_OneScoredFilePerBatchFile ==
    bPc = "done"
    => /\ Len(bResult) = Len(bBatch)
       /\ \A i \in 1..Len(bBatch) : Cardinality(EntriesFor(bResult, bBatch[i])) = 1

\* C10: a file reviewed on the first attempt ends with retries = 0 and
\* had_error = false; a file not reviewed on the first attempt is
\* re-submitted exactly once, in one batch made of the failed files only, and
\* ends with retries = 1 and had_error = false if the retry reviews it,
\* otherwise with had_error = true and all four scores zero.
C10_RetryOutcomePerFile ==
    bPc = "done"
    => \A i \in 1..Len(bBatch) :
          LET path == bBatch[i]
          IN IF ReviewedIn(bFirst, path)
             THEN /\ \E j \in EntriesFor(bResult, path) :
                        bResult[j].retries = 0 /\ ~bResult[j].hadError
                  /\ \A n \in 1..Len(bRetryBatch) : bRetryBatch[n] # path
             ELSE /\ bCalls = 2
                  /\ Cardinality({n \in 1..Len(bRetryBatch) : bRetryBatch[n] = path}) = 1
                  /\ IF ReviewedIn(bRetry, path)
                     THEN \E j \in EntriesFor(bResult, path) :
                             bResult[j].retries = 1 /\ ~bResult[j].hadError
                     ELSE \E j \in EntriesFor(bResult, path) :
                             bResult[j].hadError /\ ZeroScores(bResult[j])

-----------------------------------------------------------------------------
(* Properties of the partition and bin packing, checked under SpecPack      *)

RECURSIVE SumTokens(_)
ImpactsOf(state) ==
    [i \in 1..Len(state.finalScorecard[1].scoredFiles) |->
        state.finalScorecard[1].scoredFiles[i].impactScore]

NonIncreasing(s) == \A i \in 1..Len(s), j \in 1..Len(s) : i < j => s[i] >= s[j]

SumTokens(batch) ==
    IF batch = <<>> THEN 0 ELSE Head(batch).finalTokenCount + SumTokens(Tail(batch))

PlacesInBatches(id) ==
    {<<b, n>> \in (1..Len(pkBatches)) \X (1..MaxFiles + 1) :
        n <= Len(pkBatches[b]) /\ pkBatches[b][n].id = id}

PlacesInLarge(id) == {n \in 1..Len(pkLarge) : pkLarge[n].id = id}

\* C11: when the packing is done every file is in exactly one place (one
\* batch, or the per-file list), it is in a batch iff its send strategy is
\* full_file or single_group and its final_token_count < batch_budget, and
\* the final_token_counts of every batch sum to at most batch_budget.
C11_PartitionAndBudget ==
    pkPc = "done"
    => /\ \A i \in 1..Len(pkFiles) :
             /\ Cardinality(PlacesInBatches(i)) + Cardinality(PlacesInLarge(i)) = 1
             /\ (PlacesInBatches(i) # {})
                  <=> (/\ pkFiles[i].sendStrategy \in {"full_file", "single_group"}
                       /\ pkFiles[i].finalTokenCount < 5100)
       /\ \A b \in 1..Len(pkBatches) :
             /\ pkBatches[b] # <<>>
             /\ SumTokens(pkBatches[b]) <= 5100

\* Three files: two batchable ones that do not fit together, and a large one.
C11_Witness ==
    /\ pkPc = "done"
    /\ Len(pkBatches) >= 2
    /\ pkLarge # <<>>
\* The repository's local directory, as an absolute path.
RepoRoot(state) == Walk(CWD, RepoCachePath(state))

\* C15: for a known run and a filePath that resolves outside the repository's
\* local directory the answer is 403 and carries no file content; content is
\* sent only for a path that resolves inside the repository's directory.
C15_EscapeIsForbidden ==
    (fcPc = "answered" /\ fcRes[1].code # 400 /\ analysisStore[fcQuery[1].runId] # NoObj)
    => LET state == objs[analysisStore[fcQuery[1].runId]]
           resolved == PathResolve(RepoCachePath(state), fcQuery[1].filePath[1])
           inside == IsPrefix(RepoRoot(state), resolved)
       IN /\ ~inside => (fcRes[1].code = 403 /\ fcRes[1].content = <<>>)
          /\ fcRes[1].content # <<>> => inside

\* a = b for two quotients; two NaN are taken to agree.
SameNumber(a, b) ==
    IF a.den = 0 \/ b.den = 0 THEN a.den = 0 /\ b.den = 0
    ELSE a.num * b.den = b.num * a.den

\* C18: the ScoredFile that scoreFile returns has impactScore =
\* averageQuality * averageComplexity, on the averageQuality and
\* averageComplexity fields of that same ScoredFile.
C18_ImpactIsQualityTimesComplexity ==
    (fPc = "done" /\ ~fResult[1].threw)
    => LET file == fResult[1].file[1]
       IN SameNumber(file.impactScore, Times(file.averageQuality, file.averageComplexity))

\* C19: every group the chunker emits has totalTokens, the token count of its
\* whole combined text, of at most maxTokensPerGroup.
C19_GroupFitsBudget ==
    cPc = "done"
    => \A g \in 1..Len(cOut[1].groupedChunks) :
          cOut[1].groupedChunks[g].totalTokens <= CHUNKER_CONFIG.maxTokensPerGroup

\* C20: with sendStrategy full_file there is exactly one group, and its
\* combined text is the context header followed by the whole text of the
\* file, including the text outside top-level nodes and the skipped chunks.
C20_FullFileIsVerbatim ==
    (cPc = "done" /\ cOut[1].sendStrategy = "full_file")
    => /\ Len(cOut[1].groupedChunks) = 1
       /\ cOut[1].groupedChunks[1].combinedText = ContextHeader(cFile[1]) \o OriginalCode(cFile[1])

\* C21: for a file not sent as full_file the send strategy follows the number
\* of groups (unprocessed iff none, single_group iff one, multiple_groups iff
\* two or more), so a file sent as full_file or single_group has exactly one
\* group.
C21_StrategyCountsGroups ==
    cPc = "done"
    => LET n == Len(cOut[1].groupedChunks)
           sendStrategy == cOut[1].sendStrategy
       IN /\ sendStrategy # "full_file"
               => /\ sendStrategy = "unprocessed" <=> n = 0
                  /\ sendStrategy = "single_group" <=> n = 1
                  /\ sendStrategy = "multiple_groups" <=> n >= 2
          /\ sendStrategy \in {"full_file", "single_group"} => n = 1

\* C22: every chunk of the file is marked oversized exactly when its
\* codeOnlyTokens exceed maxTokensPerChunk; the parts of a split node, never
\* marked oversized, have at most maxTokensPerChunk tokens.
C22_OversizedIffOverLimit ==
    cPc = "done"
    => \A k \in 1..Len(cOut[1].chunks) :
          cOut[1].chunks[k].isOversized
             <=> cOut[1].chunks[k].codeOnlyTokens > CHUNKER_CONFIG.maxTokensPerChunk

\* The chunks of the groups, in the order of the groups.
RECURSIVE ChunksOfGroups(_)
ChunksOfGroups(groups) ==
    IF groups = <<>> THEN <<>> ELSE Head(groups).chunks \o ChunksOfGroups(Tail(groups))

IsActive(chunk) == ~chunk.isOversized /\ ~chunk.skipReason

\* The groups hold the active chunks of the file, each once and no other
\* chunk, in ascending startLine order; no group is empty and the groups are
\* numbered 1..n in that order.
GroupsPartition(out) ==
    LET grouped == ChunksOfGroups(out.groupedChunks)
    IN /\ grouped = SelectSeq(out.chunks, IsActive)
       /\ \A k \in 1..(Len(grouped) - 1) : grouped[k].startLine <= grouped[k + 1].startLine
       /\ \A g \in 1..Len(out.groupedChunks) :
             /\ out.groupedChunks[g].chunks # <<>>
             /\ out.groupedChunks[g].groupId = g

\* C23: for every file, the groups of groupedChunks partition the active
\* chunks: each chunk that is neither skipped nor oversized is in exactly one
\* group, no other chunk is in a group, no group is empty, the chunks are in
\* ascending startLine order and the groups are numbered 1..n in file order.
C23_GroupsPartitionActiveChunks ==
    cPc = "done" => GroupsPartition(cOut[1])

\* C23, amended: the groups partition the active chunks for every file that
\* is not sent as full_file; a file sent as full_file has one group, numbered
\* 1, whose only chunk is the synthetic full_file chunk with the joined text
\* of the active chunks.
C23_GroupsPartitionUnlessFullFile ==
    cPc = "done"
    => IF cOut[1].sendStrategy = "full_file"
       THEN /\ Len(cOut[1].groupedChunks) = 1
            /\ cOut[1].groupedChunks[1].groupId = 1
            /\ Len(cOut[1].groupedChunks[1].chunks) = 1
            /\ cOut[1].groupedChunks[1].chunks[1].type = <<"full_file">>
            /\ cOut[1].groupedChunks[1].chunks[1].originalText
                  = JoinTexts(SelectSeq(cOut[1].chunks, IsActive))
       ELSE GroupsPartition(cOut[1])

\* A file in several groups, one of them with two chunks or more, that also
\* has a skipped chunk and an oversized chunk.
C23_Witness ==
    /\ cPc = "done"
    /\ cOut[1].sendStrategy = "multiple_groups"
    /\ \E g \in 1..Len(cOut[1].groupedChunks) : Len(cOut[1].groupedChunks[g].chunks) >= 2
    /\ \E k \in 1..Len(cOut[1].chunks) : cOut[1].chunks[k].skipReason
    /\ \E k \in 1..Len(cOut[1].chunks) : cOut[1].chunks[k].isOversized

\* C24: when the call for a group of the file returned null, scoreFile has
\* recorded the zero score for that group, has gone on through the remaining
\* groups, and returns a ScoredFile holding every group: it does not throw.
C24_NullGroupStillScores ==
    (fPc = "done" /\ \E g \in 1..Len(fGroups) : fGroups[g].usageIsNull)
    => /\ fLeft = 0
       /\ \A g \in 1..Len(fGroups) :
             fGroups[g].usageIsNull => fGroups[g].score.complexity_score = 0
       /\ ~fResult[1].threw
       /\ fResult[1].file # <<>>
       /\ fResult[1].file[1].scoredChunkGroups = fGroups

\* C25: an entry stored in the metadata cache for a url is never replaced,
\* git clone is called at most once for a url, and a call that returns gives
\* the entry that is in the cache for its url, the first one stored.
C25_FirstEntryWins ==
    [][\A repoUrl \in RepoUrls :
          /\ metadataCache[repoUrl] # <<>> => metadataCache'[repoUrl] = metadataCache[repoUrl]
          /\ cloneCalls'[repoUrl] <= 1
          /\ \A c \in Callers :
                (mPc'[c] = "returned" /\ mUrl'[c] = repoUrl)
                => mRet'[c] = metadataCache'[repoUrl]]_vars

\* The awaits of the background worker of request p.
InWorker(p) == pc[p] \in {"awaitRepo", "awaitSelection", "awaitPrompt", "awaitScoring", "awaitFinal"}

\* C26: a step of the worker of one request leaves the status and the
\* logHistory of the RunState created by a later request for the same runId
\* as they are: an earlier worker's updates never land in the new RunState.
C26_WorkerUpdatesOnlyItsRunState ==
    [][\A p \in Posts, q \in Posts :
          (/\ p # q
           /\ InWorker(p)
           /\ pc'[p] # pc[p]
           /\ analysisStore[RunKey(p)] = q)
          => /\ objs'[q].status = objs[q].status
             /\ objs'[q].logHistory = objs[q].logHistory]_vars

\* Calls handed to the client so far: those that settled and the pending one.
CallsIssued == Len(jCalls) + (IF jPc = "awaitChat" THEN 1 ELSE 0)

\* The call resolved with a content text that is JSON.
ContentParses(res) ==
    /\ ~res.threw
    /\ res.content # <<>>
    /\ ~JsonParse(res.content[1]).threw

\* The call resolved and its content, or "{}" when it has none, is JSON.
ContentOrDefaultParses(res) ==
    /\ ~res.threw
    /\ \/ res.content = <<>>
       \/ ~JsonParse(res.content[1]).threw

ObjOf(res) ==
    IF res.content = <<>> THEN "empty object" ELSE JsonParse(res.content[1]).value

\* C27 as stated: safe_json_chat issues at most max_retries calls, stops at
\* the first call whose content parses as JSON and returns that object with
\* its usage, returns null iff all max_retries attempts failed by a thrown
\* error or unparsable content, and never raises.
C27_StopsAtFirstParsableContent ==
    /\ CallsIssued <= jMaxRetries
    /\ jPc \in {"entry", "awaitChat", "awaitBackoff", "returned"}
    /\ \A i \in 1..Len(jCalls) :
          ContentParses(jCalls[i]) <=> (i = Len(jCalls) /\ jPc = "returned" /\ ~jResult[1].isNull)
    /\ jPc = "returned" =>
          IF jResult[1].isNull
          THEN Len(jCalls) = jMaxRetries
          ELSE /\ jCalls # <<>>
               /\ jResult[1].obj = JsonParse(jCalls[Len(jCalls)].content[1]).value
               /\ jResult[1].usage = jCalls[Len(jCalls)].usage

\* C27 amended: safe_json_chat issues at most max_retries calls, stops at
\* the first call that resolves with JSON content or with no content at
\* all, returns the parsed object (the empty object when the content is
\* absent) with that call's usage, returns null iff max_retries calls were
\* made and each threw or had unparsable text, and never raises.
C27_StopsAtFirstParsableOrAbsentContent ==
    /\ CallsIssued <= jMaxRetries
    /\ jPc \in {"entry", "awaitChat", "awaitBackoff", "returned"}
    /\ \A i \in 1..Len(jCalls) :
          ContentOrDefaultParses(jCalls[i])
             <=> (i = Len(jCalls) /\ jPc = "returned" /\ ~jResult[1].isNull)
    /\ jPc = "returned" =>
          IF jResult[1].isNull
          THEN Len(jCalls) = jMaxRetries
          ELSE /\ jCalls # <<>>
               /\ jResult[1].obj = ObjOf(jCalls[Len(jCalls)])
               /\ jResult[1].usage = jCalls[Len(jCalls)].usage

\* The second call resolves without content after a first call that threw.
C27_Witness ==
    /\ jPc = "returned"
    /\ Len(jCalls) = 2
    /\ jCalls[1].threw
    /\ ~jCalls[2].threw
    /\ jCalls[2].content = <<>>
    /\ ~jResult[1].isNull

\* The reference procedure of the batching rule, written over positions.
\* RefMaxIndex: the first position holding the largest final_token_count.
RefMaxIndex(list) ==
    CHOOSE i \in DOMAIN list :
        /\ \A j \in DOMAIN list : list[j].finalTokenCount <= list[i].finalTokenCount
        /\ \A j \in 1..(i - 1) : list[j].finalTokenCount < list[i].finalTokenCount

RefWithout(list, i) == SubSeq(list, 1, i - 1) \o SubSeq(list, i + 1, Len(list))

RECURSIVE RefSortDesc(_)
RefSortDesc(list) ==
    IF list = <<>> THEN <<>>
    ELSE LET i == RefMaxIndex(list)
         IN <<list[i]>> \o RefSortDesc(RefWithout(list, i))

\* The positions admitted by one scan of list from position i on.
RECURSIVE RefAdmitted(_, _, _)
RefAdmitted(list, i, sum) ==
    IF i > Len(list) THEN {}
    ELSE IF sum + list[i].finalTokenCount <= MAX_BATCH_BUDGET
         THEN {i} \cup RefAdmitted(list, i + 1, sum + list[i].finalTokenCount)
         ELSE RefAdmitted(list, i + 1, sum)

RECURSIVE RefPick(_, _, _)
RefPick(list, keep, i) ==
    IF i > Len(list) THEN <<>>
    ELSE (IF i \in keep THEN <<list[i]>> ELSE <<>>) \o RefPick(list, keep, i + 1)

\* One batch per scan until no file remains; a scan that admits nothing
\* would never end and is reported as "diverges".
RECURSIVE RefScans(_)
RefScans(list) ==
    IF list = <<>> THEN <<>>
    ELSE LET admitted == RefAdmitted(list, 1, 0)
         IN IF admitted = {} THEN <<"diverges">>
            ELSE <<RefPick(list, admitted, 1)>>
                 \o RefScans(RefPick(list, DOMAIN list \ admitted, 1))

RefBatches(files) == RefScans(RefSortDesc(SelectSeq(files, Batchable)))

TokenCounts(batches) ==
    [b \in DOMAIN batches |->
        [j \in DOMAIN batches[b] |-> batches[b][j].finalTokenCount]]

\* C28: the batch-building loop terminates for every input (every pass of
\* the while loop removes a file, so there are at most as many passes as
\* batchable files) and its batches equal those of the reference
\* procedure: sort by final_token_count descending, scan the remaining
\* list admitting every file that fits the running sum, one non-empty
\* batch per scan, each batchable file in exactly one batch.
C28_BatchesEqualReference ==
    /\ Len(pkBatches) + Len(pkRemaining) <= Len(pkBatchable)
    /\ pkPc = "pack" =>
          /\ pkRemaining # <<>>
          /\ Len(pkBatches) + 1 + Len(FillBatch(pkRemaining, <<>>, 0, <<>>).rest)
                <= Len(pkBatchable)
    /\ \A b \in DOMAIN pkBatches : pkBatches[b] # <<>>
    /\ pkPc = "done" =>
          /\ pkRemaining = <<>>
          /\ TokenCounts(pkBatches) = TokenCounts(RefBatches(pkFiles))
          /\ \A i \in DOMAIN pkFiles :
                Cardinality({<<b, j>> \in (DOMAIN pkBatches) \X (1..(MaxFiles + 1)) :
                               j \in DOMAIN pkBatches[b] /\ pkBatches[b][j] = pkFiles[i]})
                  = (IF Batchable(pkFiles[i]) THEN 1 ELSE 0)

\* The example: files of 4000, 1500 and 900 tokens against a budget of 5100.
C28_Witness ==
    /\ pkPc = "done"
    /\ {pkFiles[i].finalTokenCount : i \in DOMAIN pkFiles} = {4000, 1500, 900}
    /\ Len(pkFiles) = 3
    /\ TokenCounts(pkBatches) = <<(<<4000, 900>>), (<<1500>>)>>

\* The scored file a dossier path belongs to.
DossierFile(filePath) ==
    dScoredFiles[CHOOSE i \in DOMAIN dScoredFiles : <<DossierPaths[i]>> = filePath]

EntryTokens(entry) == DossierFile(entry.filePath).scoredChunkGroups[entry.groupId].totalTokens

\* total_tokens of the first n entries of the dossier.
RECURSIVE DossierTokens(_)
DossierTokens(n) ==
    IF n = 0 THEN 0 ELSE EntryTokens(dEntries[n]) + DossierTokens(n - 1)

IsSent(filePath) == \E k \in DOMAIN dSent : dSent[k] = filePath

\* Tokens of the candidates admitted among the first n.
RECURSIVE AdmittedTokens(_)
AdmittedTokens(n) ==
    IF n = 0 THEN 0
    ELSE (IF IsSent(dCandidates[n].filePath) THEN dCandidates[n].tokens ELSE 0)
         + AdmittedTokens(n - 1)

EntriesOf(filePath) == {n \in DOMAIN dEntries : dEntries[n].filePath = filePath}

\* C29: for both strategies, the total_tokens of the dossier's entries sum
\* to at most dossier_budget; the candidates (every file at its own impact
\* under global_top_impact, one group per file with groups under
\* top_impact_per_file) are tried in descending impact order, each admitted
\* iff it fits what is left; and under global_top_impact the dossier holds
\* all the groups of an admitted file and none of any other file.
C29_DossierWithinBudget ==
    dPc = "built"
    => /\ DossierTokens(Len(dEntries)) <= DOSSIER_BUDGET
       /\ \A i \in DOMAIN dCandidates, j \in DOMAIN dCandidates :
             i < j => /\ dCandidates[i].impactScore >= dCandidates[j].impactScore
                      /\ dCandidates[i].filePath # dCandidates[j].filePath
       /\ {dCandidates[i].filePath : i \in DOMAIN dCandidates}
             = {<<DossierPaths[i]>> : i \in {k \in DOMAIN dScoredFiles :
                    \/ dStrategy = "global_top_impact"
                    \/ dScoredFiles[k].scoredChunkGroups # <<>>}}
       /\ \A i \in DOMAIN dCandidates :
             LET file == DossierFile(dCandidates[i].filePath)
             IN dCandidates[i].impactScore
                  = (IF dStrategy = "global_top_impact" THEN file.impactScore
                     ELSE GroupImpact(file.scoredChunkGroups[dCandidates[i].groupIds[1]]))
       /\ \A i \in DOMAIN dCandidates :
             IsSent(dCandidates[i].filePath)
               <=> dCandidates[i].tokens + AdmittedTokens(i - 1) <= DOSSIER_BUDGET
       /\ \A k \in DOMAIN dSent, l \in DOMAIN dSent :
             k < l => \E i \in DOMAIN dCandidates, j \in DOMAIN dCandidates :
                         /\ i < j
                         /\ dCandidates[i].filePath = dSent[k]
                         /\ dCandidates[j].filePath = dSent[l]
       /\ \A n \in DOMAIN dEntries : IsSent(dEntries[n].filePath)
       /\ dStrategy = "global_top_impact" =>
             \A i \in DOMAIN dScoredFiles :
                IsSent(<<DossierPaths[i]>>) =>
                   /\ {dEntries[n].groupId : n \in EntriesOf(<<DossierPaths[i]>>)}
                         = DOMAIN dScoredFiles[i].scoredChunkGroups
                   /\ Cardinality(EntriesOf(<<DossierPaths[i]>>))
                         = Len(dScoredFiles[i].scoredChunkGroups)

\* global_top_impact fills the budget exactly with a file of two groups and
\* leaves out a file of lower impact that no longer fits.
C29_Witness ==
    /\ dPc = "built"
    /\ dStrategy = "global_top_impact"
    /\ DossierTokens(Len(dEntries)) = DOSSIER_BUDGET
    /\ Len(dEntries) = 2
    /\ dEntries[1].filePath = dEntries[2].filePath
    /\ \E i \in DOMAIN dScoredFiles :
          /\ ~IsSent(<<DossierPaths[i]>>)
          /\ dScoredFiles[i].scoredChunkGroups # <<>>

\* The entries of the first attempt's result that a review was credited to.
CreditedTo(scoredFiles, filePath) ==
    {n \in DOMAIN scoredFiles : scoredFiles[n].filePath = filePath /\ ~scoredFiles[n].hadError}

\* C30: when the first attempt's answer holds a review whose file_path
\* equals the full path of a file of the batch, that file is the one
\* credited with a review naming it (and not a file whose path only ends
\* with that string), and no file is credited with more than one review.
C30_ReviewCreditsTheFileItNames ==
    [][\A answer \in BatchAnswers :
          (BatchFirstReturn(answer) /\ answer.valid)
          => \A i \in DOMAIN bBatch :
                /\ Cardinality(CreditedTo(bFirst', bBatch[i])) <= 1
                /\ (\E k \in DOMAIN answer.reviews : answer.reviews[k].file_path = bBatch[i])
                   => \E n \in CreditedTo(bFirst', bBatch[i]), k \in DOMAIN answer.reviews :
                         /\ answer.reviews[k].file_path = bBatch[i]
                         /\ bFirst'[n].averageComplexity = answer.reviews[k].complexity_score]_vars

=============================================================================
